---- MODULE Spec2Model ----
(***************************************************************************)
(* A model of the publish automation core of xhs-publisher:                *)
(*   scripts/recovery.py  - save_error_snapshot, retry, safe_navigate,     *)
(*                          check_page_health, recover_page                *)
(*   scripts/xhs_auto.py  - publish_note, _save_report                     *)
(*   scripts/stats.py     - summary (the consumer of the report records)   *)
(* The browser page and the collaborators (image generation, the report    *)
(* file, screenshots) are the environment: each of their calls either      *)
(* succeeds or raises, chosen nondeterministically.                        *)
(***************************************************************************)
EXTENDS Integers, Sequences, FiniteSets, TLC

VARIABLES
    \* ---- the browser page ----
    page_url,       \* page.url, a sequence of URL segments
    page_success,   \* the page shows the success text
    page_fail,      \* the failure-text elements on the page, in query order
    page_form,      \* the text the title and body fields of the page hold
    \* ---- safe_navigate (one call at a time) ----
    nv_pc,          \* "idle" | "goto" | "reload" | "snapshot" | "returned" | "raised"
    nv_target,      \* url argument
    nv_retries,     \* retries argument
    nv_attempt,     \* loop variable attempt
    nv_gotos,       \* page.goto calls of this call
    nv_reloads,     \* page.reload calls of this call
    nv_snaps,       \* what its save_error_snapshot(page, 'nav_fail') calls returned
    \* ---- recover_page (one call at a time) ----
    rc_pc,          \* "idle" | "check" | "navigating" | "returned"
    rc_target,      \* target_url argument
    rc_health,      \* the PageHealth its check_page_health call returned
    rc_ret,         \* its return value
    rc_url0,        \* page.url when it was called
    rc_gotos,       \* page.goto calls of its safe_navigate call
    rc_reloads,     \* page.reload calls of its safe_navigate call
    rc_sleeps,      \* its time.sleep(3) calls
    \* ---- the retry decorator's wrapper (one call) ----
    rt_pc,          \* "idle" | "enter" | "call" | "sleep" | "next" | "returned" | "raised"
    rt_max,         \* max_retries
    rt_recov,       \* recoverable_errors: the error types the wrapper retries
    rt_delay0,      \* delay
    rt_backoff,     \* backoff
    rt_attempt,     \* loop variable attempt
    rt_delay,       \* current_delay
    rt_last,        \* last_error
    rt_calls,       \* what each call of func did, in order
    rt_sleeps,      \* the time.sleep arguments, in order
    rt_out,         \* what the wrapper returned or raised
    \* ---- publish_note (one invocation) ----
    p_pc,           \* its position, "idle" | "start" | ... | "done" | "raised"
    dry_run,        \* the dry_run argument
    title,          \* the title argument, as the number of its characters
    content,        \* the content argument, as the number of its characters
    p_steps,        \* the steps performed so far
    p_nav_gotos,    \* the page.goto calls of a failed step 1
    p_media,        \* image_paths
    media_call,     \* step 3 as it ran: its arguments and what its collaborators did
    p_preshot,      \* pre_publish_shot
    p_entered,      \* the fields steps 4-5 entered their text in
    p_attempt,      \* loop variable attempt of the submit loop
    p_success,      \* publish_success of the current attempt
    p_error_msg,    \* error_msg of the classifier (<< >>: None)
    p_clicked,      \* the current attempt clicked the submit button
    p_health,       \* what the current attempt's health check led to
    p_outcome,      \* the outcome the classifier gave the current attempt
    p_exc,          \* the exception caught by the attempt's except clause
    p_hist,         \* how each finished attempt went, in order
    n_click,        \* submit-button clicks issued so far
    reports,        \* the report records written by _save_report, in order
    p_result,       \* the returned value
    p_raised,       \* the error that left publish_note
    \* ---- safe_click / safe_fill (one call) ----
    click,          \* the call's frame: pc, op, retries, attempt, log, sleeps, ret
    \* ---- _add_tags (one call) ----
    tagging,        \* the call's frame: pc, tags, i, tried, typed, added
    \* ---- check_page_health (one call) ----
    probe,          \* the call's frame: pc, fault, ret
    \* ---- comments.py: the comments database and the auto_reply runs ----
    replies,        \* file, db, run, pc, dry_run, comments, i, results, and the
                    \* history: sent, marked, lost
    \* ---- accounts.py: the account store and the last call on it ----
    accounts        \* file, readable, dirs, and the call: op, arg, ret, before

pageVars  == <<page_url, page_success, page_fail, page_form>>
loopVars  == <<p_attempt, p_success, p_error_msg, p_clicked, p_health, p_outcome, p_exc, p_hist>>
pubVars   == <<p_pc, dry_run, title, content, p_steps, p_nav_gotos, p_media, media_call, p_preshot, p_entered, loopVars,
               n_click, reports, p_result, p_raised>>
navVars   == <<nv_pc, nv_target, nv_retries, nv_attempt, nv_gotos, nv_reloads, nv_snaps>>
recVars   == <<rc_pc, rc_target, rc_health, rc_ret, rc_url0, rc_gotos, rc_reloads,
               rc_sleeps>>
coreVars  == <<page_url, page_success, page_fail, page_form,
               nv_pc, nv_target, nv_retries, nv_attempt, nv_gotos, nv_reloads, nv_snaps,
               rc_pc, rc_target, rc_health, rc_ret, rc_url0, rc_gotos, rc_reloads, rc_sleeps,
               rt_pc, rt_max, rt_recov, rt_delay0, rt_backoff, rt_attempt, rt_delay, rt_last,
               rt_calls, rt_sleeps, rt_out,
               p_pc, dry_run, title, content, p_steps, p_nav_gotos, p_media, media_call,
               p_preshot, p_entered, p_attempt, p_success, p_error_msg, p_clicked,
               p_health, p_outcome, p_exc, p_hist, n_click, reports, p_result, p_raised>>
extVars   == <<click, tagging, probe, replies, accounts>>
\* all but the one named
notClick  == <<coreVars, tagging, probe, replies, accounts>>
notTagging == <<coreVars, click, probe, replies, accounts>>
notProbe  == <<coreVars, click, tagging, replies, accounts>>
notReplies == <<coreVars, click, tagging, probe, accounts>>
notAccounts == <<coreVars, click, tagging, probe, replies>>
retryVars == <<rt_pc, rt_max, rt_recov, rt_delay0, rt_backoff, rt_attempt, rt_delay, rt_last,
               rt_calls, rt_sleeps, rt_out>>

----------------------------------------------------------------------------
(* URLs.  A URL is a sequence of segments; Python's `x in url` on strings    *)
(* is containment of one segment sequence in another.                      *)

XHS_CREATOR == <<"https://creator.xiaohongshu.com">>
XHS_PUBLISH == <<"https://creator.xiaohongshu.com", "/publish/publish">>
XHS_LOGIN   == <<"https://creator.xiaohongshu.com", "/login">>
NOTE_MANAGER == <<"https://creator.xiaohongshu.com", "/new/note-manager">>
PUBLISH_QUERY == XHS_PUBLISH \o <<"?source=official">>
PUBLISH_ERRQ == XHS_PUBLISH \o <<"?from=", "error">>
ABOUT_BLANK == <<"about:blank">>
CHROME_ERROR == <<"chrome-", "error", "://chromewebdata/">>
EMPTY_URL == << >>

Urls == {XHS_PUBLISH, PUBLISH_QUERY, PUBLISH_ERRQ, XHS_LOGIN, NOTE_MANAGER,
         ABOUT_BLANK, CHROME_ERROR}

\* `sub in s` of Python, on segment sequences
Contains(sub, s) ==
    \E i \in 0..(Len(s) - Len(sub)) :
        \A j \in 1..Len(sub) : s[i + j] = sub[j]

----------------------------------------------------------------------------
(* recovery.py, save_error_snapshot: the path of the screenshot, or None    *)
(* when page.screenshot raises.                                            *)
\* the composer's title and body fields, by the number of characters each
\* holds; a freshly loaded document holds none
BlankForm == [title |-> 0, body |-> 0]

\* the page shows no failure text
NoMarkers == << >>

None == "None"

save_error_snapshot(label, shot_ok) ==
    IF shot_ok THEN label ELSE None

\* check_page_health that looks for about:blank only
check_page_health_blank_only(url, eval_ok) ==
    IF Contains(ABOUT_BLANK, url)
    THEN [ok |-> FALSE, url |-> url, error |-> "page_abnormal"]
    ELSE IF eval_ok
         THEN [ok |-> TRUE, url |-> url, error |-> "none"]
         ELSE [ok |-> FALSE, url |-> EMPTY_URL, error |-> "evaluate_raised"]

(* recovery.py, check_page_health.  eval_ok: page.evaluate did not raise.   *)
check_page_health(url, eval_ok) ==
    IF Contains(<<"error">>, url) \/ Contains(ABOUT_BLANK, url)
    THEN [ok |-> FALSE, url |-> url, error |-> "page_abnormal"]
    ELSE IF eval_ok
         THEN [ok |-> TRUE, url |-> url, error |-> "none"]
         ELSE [ok |-> FALSE, url |-> EMPTY_URL, error |-> "evaluate_raised"]

NoHealth == [ok |-> FALSE, url |-> EMPTY_URL, error |-> "not_checked"]

\* one call of check_page_health, step by step.  fault: the page call that
\* raised, "none" when none did
ProbeIdle == [pc |-> "idle", fault |-> "none", ret |-> NoHealth]

\* line 162, 169-170: reading page.url raises
ProbeUrlRaises ==
    /\ probe.pc = "url"
    /\ probe' = [pc |-> "returned", fault |-> "url",
                 ret |-> [ok |-> FALSE, url |-> EMPTY_URL, error |-> "url_raised"]]
    /\ UNCHANGED notProbe

\* line 162-170: page.url is read; the URL test, then page.evaluate
ProbeChecks ==
    /\ probe.pc = "url"
    /\ \E eval_ok \in BOOLEAN :
          LET health == check_page_health(page_url, eval_ok) IN
          probe' = [pc |-> "returned",
                    fault |-> IF health.error = "evaluate_raised"
                              THEN "evaluate" ELSE "none",
                    ret |-> health]
    /\ UNCHANGED notProbe

----------------------------------------------------------------------------
(* recovery.py, safe_navigate(page, url, timeout, retries).                 *)

\* where a successful goto can land: the target, or the login page the
\* platform redirects an unauthenticated session to
AfterGoto(url) == {url, XHS_LOGIN}

\* where a failed goto or reload can leave the page
AfterFailedLoad(url) == {url, ABOUT_BLANK, CHROME_ERROR}

\* a load that fails (or a reload, which reloads the same URL) leaves the page
\* on u; the texts of the old document are gone when the document changed
LoadFailed(u) ==
    /\ page_url' = u
    /\ page_success' = (page_success /\ u = page_url)
    /\ page_fail' = IF u = page_url THEN page_fail ELSE NoMarkers
    /\ page_form' = IF u = page_url THEN page_form ELSE BlankForm

\* the call: the loop starts with attempt = 1
NavStart(url, retries) ==
    /\ nv_pc' = "goto"
    /\ nv_target' = url
    /\ nv_retries' = retries
    /\ nv_attempt' = 1
    /\ nv_gotos' = 0
    /\ nv_reloads' = 0
    /\ nv_snaps' = << >>

\* the caller has taken the call's outcome: its frame is gone
NavEnd ==
    /\ nv_pc' = "idle"
    /\ nv_target' = EMPTY_URL
    /\ nv_retries' = 0
    /\ nv_attempt' = 0
    /\ nv_gotos' = 0
    /\ nv_reloads' = 0
    /\ nv_snaps' = << >>

\* line 84-85: page.goto succeeds, return True
NavGotoOk ==
    /\ nv_pc = "goto"
    /\ nv_gotos' = nv_gotos + 1
    /\ \E u \in AfterGoto(nv_target) : page_url' = u
    /\ page_success' = FALSE
    /\ page_fail' = NoMarkers
    /\ page_form' = BlankForm
    /\ nv_pc' = "returned"
    /\ UNCHANGED <<nv_target, nv_retries, nv_attempt, nv_reloads, nv_snaps>>
    /\ UNCHANGED <<recVars, retryVars, extVars, pubVars>>

NavMoreAttempts(attempt, retries) == attempt < retries

\* line 86-96: page.goto raises
NavGotoFail ==
    /\ nv_pc = "goto"
    /\ nv_gotos' = nv_gotos + 1
    /\ \E u \in AfterFailedLoad(page_url) : LoadFailed(u)
    /\ nv_pc' = IF NavMoreAttempts(nv_attempt, nv_retries) THEN "reload" ELSE "snapshot"
    /\ UNCHANGED <<nv_target, nv_retries, nv_attempt, nv_reloads, nv_snaps>>
    /\ UNCHANGED <<recVars, retryVars, extVars, pubVars>>

\* line 89-94: sleep, page.reload (its failure is ignored), next attempt
NavReload ==
    /\ nv_pc = "reload"
    /\ nv_reloads' = nv_reloads + 1
    /\ \/ /\ page_url' = page_url          \* reloaded: a fresh document
          /\ page_success' = FALSE
          /\ page_fail' = NoMarkers
          /\ page_form' = BlankForm
       \/ \E u \in AfterFailedLoad(page_url) : LoadFailed(u)
    /\ nv_attempt' = nv_attempt + 1
    /\ nv_pc' = "goto"
    /\ UNCHANGED <<nv_target, nv_retries, nv_gotos, nv_snaps>>
    /\ UNCHANGED <<recVars, retryVars, extVars, pubVars>>

\* line 96-97: save_error_snapshot(page, 'nav_fail'), re-raise
NavSnapshot ==
    /\ nv_pc = "snapshot"
    /\ \E shot_ok \in BOOLEAN :
          nv_snaps' = Append(nv_snaps, save_error_snapshot("nav_fail", shot_ok))
    /\ nv_pc' = "raised"
    /\ UNCHANGED <<nv_target, nv_retries, nv_attempt, nv_gotos, nv_reloads>>
    /\ UNCHANGED <<pageVars, recVars, retryVars, extVars, pubVars>>

safe_navigate ==
    \/ NavGotoOk
    \/ NavGotoFail
    \/ NavReload
    \/ NavSnapshot

----------------------------------------------------------------------------
(* recovery.py, safe_click(page, selector, timeout, retries, label) and     *)
(* safe_fill(page, selector, text, timeout, retries, label).               *)

\* the return value is "True", "False" or None

\* the page calls of one attempt, in order
SafeStages(op) ==
    IF op = "click" THEN <<"wait_for", "click">>
    ELSE <<"wait_for", "click", "fill">>

\* the errors a page call raises, and what `except Exception` catches
PageErrors == {"TimeoutError", "Error"}
ExceptionCatches(e) == e \in {"TimeoutError", "Error", "Exception"}

\* line 118, 146: `if attempt < retries`, after one attempt too many
SafeMoreAttemptsOver(attempt, retries) == attempt <= retries

\* line 118, 146: `if attempt < retries`
SafeMoreAttempts(attempt, retries) == attempt < retries

ClickIdle ==
    [pc |-> "idle", op |-> "none", retries |-> 0, attempt |-> 0, log |-> << >>,
     sleeps |-> 0, ret |-> None]

\* line 111-116, 138-144: every page call of the attempt succeeds: return True
SafeAttemptOk ==
    /\ click.pc = "try"
    /\ click' = [click EXCEPT !.log = Append(@, "ok"),
                              !.pc = "returned",
                              !.ret = "True"]
    /\ UNCHANGED notClick

\* line 117-123, 145-151: a page call of the attempt raises
SafeAttemptRaises ==
    /\ click.pc = "try"
    /\ \E i \in 1..Len(SafeStages(click.op)), e \in PageErrors :
          LET failed == [click EXCEPT !.log = Append(@, SafeStages(click.op)[i])]
          IN click' =
                IF ~ExceptionCatches(e)
                THEN [failed EXCEPT !.pc = "raised"]
                ELSE IF SafeMoreAttempts(click.attempt, click.retries)
                THEN [failed EXCEPT !.pc = "sleep"]
                ELSE [failed EXCEPT !.pc = "returned", !.ret = "False"]
    /\ UNCHANGED notClick

\* line 120, 148: time.sleep(2), then the next item of range(1, retries + 1);
\* when the range is used up the function ends and returns None
SafeSleep ==
    /\ click.pc = "sleep"
    /\ click' =
          IF click.attempt + 1 <= click.retries
          THEN [click EXCEPT !.sleeps = @ + 1, !.attempt = @ + 1, !.pc = "try"]
          ELSE [click EXCEPT !.sleeps = @ + 1, !.pc = "returned", !.ret = None]
    /\ UNCHANGED notClick

----------------------------------------------------------------------------
(* recovery.py, recover_page(page, target_url).                             *)

DEFAULT_NAV_RETRIES == 3

\* the call
RecoverStart(target) ==
    /\ rc_pc' = "check"
    /\ rc_target' = target
    /\ rc_health' = NoHealth
    /\ rc_ret' = FALSE
    /\ rc_url0' = page_url
    /\ rc_gotos' = 0
    /\ rc_reloads' = 0
    /\ rc_sleeps' = 0

\* the caller has taken the return value: the frame is gone
RecoverEnd ==
    /\ rc_pc' = "idle"
    /\ rc_target' = EMPTY_URL
    /\ rc_health' = NoHealth
    /\ rc_ret' = FALSE
    /\ rc_url0' = EMPTY_URL
    /\ rc_gotos' = 0
    /\ rc_reloads' = 0
    /\ rc_sleeps' = 0

\* line 181: the page needs no recovery
RecoverNotNeededOr(health, target) == health.ok \/ Contains(target, health.url)

RecoverNotNeeded(health, target) == health.ok /\ Contains(target, health.url)

\* line 180-182: healthy and on the target, return True
RecoverNoop ==
    /\ rc_pc = "check"
    /\ \E eval_ok \in BOOLEAN :
          LET health == check_page_health(page_url, eval_ok) IN
          /\ RecoverNotNeeded(health, rc_target)
          /\ rc_health' = health
    /\ rc_pc' = "returned"
    /\ rc_ret' = TRUE
    /\ UNCHANGED <<rc_target, rc_url0, rc_gotos, rc_reloads, rc_sleeps>>
    /\ UNCHANGED <<pageVars, navVars, retryVars, extVars, pubVars>>

\* line 184-186: otherwise call safe_navigate(page, target_url)
RecoverNavigate ==
    /\ rc_pc = "check"
    /\ \E eval_ok \in BOOLEAN :
          LET health == check_page_health(page_url, eval_ok) IN
          /\ ~RecoverNotNeeded(health, rc_target)
          /\ rc_health' = health
    /\ rc_pc' = "navigating"
    /\ NavStart(rc_target, DEFAULT_NAV_RETRIES)
    /\ UNCHANGED <<rc_target, rc_ret, rc_url0, rc_gotos, rc_reloads, rc_sleeps>>
    /\ UNCHANGED <<pageVars, retryVars, extVars, pubVars>>

\* line 187-188: safe_navigate returned: sleep 3 s, return True
RecoverNavReturned ==
    /\ rc_pc = "navigating"
    /\ nv_pc = "returned"
    /\ NavEnd
    /\ rc_gotos' = nv_gotos
    /\ rc_reloads' = nv_reloads
    /\ rc_sleeps' = rc_sleeps + 1
    /\ rc_pc' = "returned"
    /\ rc_ret' = TRUE
    /\ UNCHANGED <<rc_target, rc_health, rc_url0>>
    /\ UNCHANGED <<pageVars, retryVars, extVars, pubVars>>

\* line 189-191: safe_navigate raised: return False
RecoverNavRaised ==
    /\ rc_pc = "navigating"
    /\ nv_pc = "raised"
    /\ NavEnd
    /\ rc_gotos' = nv_gotos
    /\ rc_reloads' = nv_reloads
    /\ rc_pc' = "returned"
    /\ rc_ret' = FALSE
    /\ UNCHANGED <<rc_target, rc_health, rc_url0, rc_sleeps>>
    /\ UNCHANGED <<pageVars, retryVars, extVars, pubVars>>

recover_page ==
    \/ RecoverNoop
    \/ RecoverNavigate
    \/ RecoverNavReturned
    \/ RecoverNavRaised

----------------------------------------------------------------------------
(* recovery.py, retry(max_retries, delay, backoff, recoverable_errors):     *)
(* the wrapper around one call of the decorated func.                      *)

MaxRetries == 3

ErrorTypes == {"TimeoutError", "ValueError"}
Delays == {1, 5}
Backoffs == {1, 2}

NoError == [kind |-> "none", type |-> "none", call |-> 0]

\* the error object raised by the call-th call of func
ErrorOf(type, call) == [kind |-> "error", type |-> type, call |-> call]

\* the value returned by the call-th call of func
ValueOf(call) == [kind |-> "value", type |-> "none", call |-> call]

\* `raise last_error` with last_error = None: Python raises a TypeError
RaiseOf(last_error) ==
    IF last_error = NoError THEN ErrorOf("TypeError", 0) ELSE last_error

\* line 52: `for attempt in range(1, max_retries + 1)` has an item after attempt
RangeHasNextShort(attempt, max_retries) == attempt + 1 <= max_retries - 1

RangeHasNext(attempt, max_retries) == attempt + 1 <= max_retries

\* line 57: `if attempt < max_retries`, true of the last attempt too
RetryWillSleepLast(attempt, max_retries) == attempt <= max_retries

\* line 57: `if attempt < max_retries`
RetryWillSleep(attempt, max_retries) == attempt < max_retries

NextLastError(last_error, e) == e

\* line 49-52: enter the loop (or skip it when the range is empty)
RetryEnter ==
    /\ rt_pc = "enter"
    /\ rt_last' = NoError
    /\ rt_delay' = rt_delay0
    /\ IF RangeHasNext(0, rt_max)
       THEN /\ rt_attempt' = 1
            /\ rt_pc' = "call"
            /\ rt_out' = rt_out
       ELSE /\ rt_attempt' = rt_attempt
            /\ rt_pc' = "raised"
            /\ rt_out' = RaiseOf(NoError)
    /\ UNCHANGED <<rt_max, rt_recov, rt_delay0, rt_backoff, rt_calls, rt_sleeps>>
    /\ UNCHANGED <<pageVars, navVars, recVars, pubVars, extVars>>

\* line 54: func returns, the wrapper returns its value
RetryCallReturns ==
    /\ rt_pc = "call"
    /\ rt_calls' = Append(rt_calls, ValueOf(Len(rt_calls) + 1))
    /\ rt_out' = ValueOf(Len(rt_calls) + 1)
    /\ rt_pc' = "returned"
    /\ UNCHANGED <<rt_max, rt_recov, rt_delay0, rt_backoff, rt_attempt, rt_delay,
                   rt_last, rt_sleeps>>
    /\ UNCHANGED <<pageVars, navVars, recVars, pubVars, extVars>>

\* line 55-65: func raises an error of recoverable_errors
RetryCallRecoverable ==
    /\ rt_pc = "call"
    /\ \E t \in rt_recov :
          LET e == ErrorOf(t, Len(rt_calls) + 1) IN
          /\ rt_calls' = Append(rt_calls, e)
          /\ rt_last' = NextLastError(rt_last, e)
    /\ rt_pc' = IF RetryWillSleep(rt_attempt, rt_max) THEN "sleep" ELSE "next"
    /\ UNCHANGED <<rt_max, rt_recov, rt_delay0, rt_backoff, rt_attempt, rt_delay,
                   rt_sleeps, rt_out>>
    /\ UNCHANGED <<pageVars, navVars, recVars, pubVars, extVars>>

\* func raises an error outside recoverable_errors: it propagates
RetryCallFatal ==
    /\ rt_pc = "call"
    /\ \E t \in ErrorTypes \ rt_recov :
          LET e == ErrorOf(t, Len(rt_calls) + 1) IN
          /\ rt_calls' = Append(rt_calls, e)
          /\ rt_out' = e
    /\ rt_pc' = "raised"
    /\ UNCHANGED <<rt_max, rt_recov, rt_delay0, rt_backoff, rt_attempt, rt_delay,
                   rt_last, rt_sleeps>>
    /\ UNCHANGED <<pageVars, navVars, recVars, pubVars, extVars>>

\* line 62-63: time.sleep(current_delay); current_delay *= backoff
RetrySleep ==
    /\ rt_pc = "sleep"
    /\ rt_sleeps' = Append(rt_sleeps, rt_delay)
    /\ rt_delay' = rt_delay * rt_backoff
    /\ rt_pc' = "next"
    /\ UNCHANGED <<rt_max, rt_recov, rt_delay0, rt_backoff, rt_attempt, rt_last,
                   rt_calls, rt_out>>
    /\ UNCHANGED <<pageVars, navVars, recVars, pubVars, extVars>>

\* line 52, 67: the next attempt, or `raise last_error` after the loop
RetryNext ==
    /\ rt_pc = "next"
    /\ IF RangeHasNext(rt_attempt, rt_max)
       THEN /\ rt_attempt' = rt_attempt + 1
            /\ rt_pc' = "call"
            /\ rt_out' = rt_out
       ELSE /\ rt_attempt' = rt_attempt
            /\ rt_pc' = "raised"
            /\ rt_out' = RaiseOf(rt_last)
    /\ UNCHANGED <<rt_max, rt_recov, rt_delay0, rt_backoff, rt_delay, rt_last,
                   rt_calls, rt_sleeps>>
    /\ UNCHANGED <<pageVars, navVars, recVars, pubVars, extVars>>

retry ==
    \/ RetryEnter
    \/ RetryCallReturns
    \/ RetryCallRecoverable
    \/ RetryCallFatal
    \/ RetrySleep
    \/ RetryNext

----------------------------------------------------------------------------
(* xhs_auto.py, _save_report: the record written to logs/report_*.json.     *)
(* A write that raises leaves no record.                                   *)

save_report(success, error) == [success |-> success, error |-> error]

(* stats.py, summary: a record counts as failed when it is not a success.  *)
CountsAsFailed(record) == ~record.success

(* xhs_auto.py, publish_note: the shapes of the dict it returns.  A key the *)
(* dict does not hold reads as FALSE / "none" / 0 here.                    *)
Result(success, is_dry, uncertain, error, screenshot, retries) ==
    [success |-> success, dry_run |-> is_dry, uncertain |-> uncertain,
     error |-> error, screenshot |-> screenshot, retries |-> retries]

NoResult == Result(FALSE, FALSE, FALSE, "no_result", "unset", 0)

\* line 184
NavFailureResult(shot) == Result(FALSE, FALSE, FALSE, "NavigationFailed", shot, 0)

\* line 309-314
DryRunResult(shot) == Result(TRUE, TRUE, FALSE, "none", shot, 0)

\* line 377-381
SuccessResult(shot) == Result(TRUE, FALSE, FALSE, "none", shot, 0)

\* line 388-393
UncertainResult(shot) == Result(FALSE, FALSE, TRUE, "Indeterminate", shot, 0)

\* line 404-409
FinalFailureResult(e, shot, retries) == Result(FALSE, FALSE, FALSE, e, shot, retries)

----------------------------------------------------------------------------
(* xhs_auto.py, publish_note, step 3: the media list (line 207-257).        *)

\* a path of the images argument, of the generator, of the placeholder and
\* of a text page
Img(i) == <<"img", i>>
AiImage(idx) == <<"ai", idx>>        \* ai_cover_<ts>.png (0), ai_page<idx>_<ts>.png
DefaultCover == <<"default_cover", 0>>
TextPage(i) == <<"text_page", i>>
\* the most pages the overflow text is taken to fill
MaxTextPagesNeeded == 10

RECURSIVE KeepGenerated(_, _, _)
\* _auto_generate_multi_images, line 595-615: the paths of the images whose
\* generation succeeded (oks: the indexes that succeeded), in order
KeepGenerated(idx, count, oks) ==
    IF idx >= count THEN << >>
    ELSE (IF idx \in oks THEN <<AiImage(idx)>> ELSE << >>)
         \o KeepGenerated(idx + 1, count, oks)

Min(a, b) == IF a < b THEN a ELSE b
Max(a, b) == IF a > b THEN a ELSE b

MAX_MEDIA == 9

\* line 562: count = max(1, min(9, count))
ClampCount(count) == Max(1, Min(MAX_MEDIA, count))

\* the images and image_count arguments
SuppliedImages ==
    {<< >>, <<Img(1)>>, <<Img(1), Img(2)>>, [i \in 1..(MAX_MEDIA + 1) |-> Img(i)]}
ImageCounts == {0, 1, 2, 3, MAX_MEDIA, MAX_MEDIA + 1}

\* the list before overflow text, without the placeholder fallback
MediaBeforeOverflowNoCover(images, auto_image, image_count, multi_oks, single_ok) ==
    IF images # << >> THEN images
    ELSE IF auto_image /\ image_count > 1 /\ multi_oks # {}
    THEN KeepGenerated(0, ClampCount(image_count), multi_oks)
    ELSE IF auto_image /\ single_ok THEN <<AiImage(0)>>
    ELSE << >>

\* line 208-239: the list before overflow text is looked at.
\* multi_oks: which of the count images were generated; single_ok: the
\* single-image generation succeeded
MediaBeforeOverflow(images, auto_image, image_count, multi_oks, single_ok) ==
    IF images # << >> THEN images
    ELSE IF auto_image
    THEN LET generated == IF image_count > 1
                          THEN KeepGenerated(0, ClampCount(image_count), multi_oks)
                          ELSE << >>
             single == IF single_ok THEN <<AiImage(0)>> ELSE << >>
             image_paths == IF generated # << >> THEN generated ELSE single
         IN IF image_paths # << >> THEN image_paths ELSE <<DefaultCover>>
    ELSE <<DefaultCover>>

\* max_text_pages without the room kept for the cover
MaxTextPagesNoCover(image_paths) == MAX_MEDIA

\* line 246: max_text_pages
MaxTextPages(image_paths) == MAX_MEDIA - Min(Len(image_paths), 1)

\* image_gen.py, render_text_pages, line 440-445: at most max_pages pages
RenderTextPages(needed, max_pages) ==
    [i \in 1..Min(needed, max_pages) |-> TextPage(i)]

\* line 242-257: the list after overflow text.  needed: the pages the text
\* fills (0: no overflow text, or the rendering raised or gave nothing)
MediaAfterOverflow(image_paths, needed) ==
    LET text_pages == RenderTextPages(needed, MaxTextPages(image_paths)) IN
    IF text_pages # << >>
    THEN SubSeq(image_paths, 1, Min(1, Len(image_paths))) \o text_pages
    ELSE image_paths

\* line 209-210: _auto_generate_multi_images is called
MultiRuns(images, auto_image, image_count) ==
    images = << >> /\ auto_image /\ image_count > 1

\* line 564: whether `from image_gen import generate_image` can succeed, where
\* _auto_generate_multi_images runs it
ImportOutcomes(images, auto_image, image_count) ==
    IF MultiRuns(images, auto_image, image_count) THEN BOOLEAN ELSE {TRUE}

\* line 597-609: the indexes whose generate_image call succeeded; a call that
\* returns success False and a call that raises are both logged and skipped
MultiOutcomes(images, auto_image, image_count, import_ok) ==
    IF MultiRuns(images, auto_image, image_count) /\ import_ok
    THEN SUBSET (0..(ClampCount(image_count) - 1))
    ELSE {{}}

\* line 218, 223: _auto_generate_image is called; it returns a path, or None
\* when generate_image returns success False or anything in it raises
SingleRuns(images, auto_image, import_ok, multi_oks) ==
    images = << >> /\ auto_image /\ import_ok /\ multi_oks = {}

SingleOutcomes(images, auto_image, import_ok, multi_oks) ==
    IF SingleRuns(images, auto_image, import_ok, multi_oks) THEN BOOLEAN ELSE {FALSE}

\* line 230-239: the placeholder is needed; default_cover.png exists, or
\* _generate_default_cover writes it, or raises an error it does not catch
CoverNeeded(images, import_ok, multi_oks, single_ok) ==
    images = << >> /\ import_ok /\ multi_oks = {} /\ ~single_ok

CoverOutcomes(images, import_ok, multi_oks, single_ok) ==
    IF CoverNeeded(images, import_ok, multi_oks, single_ok)
    THEN {"exists", "generated", "raises"}
    ELSE {"not_needed"}

\* line 242-251: the pages render_text_pages has to lay out; 0 when there is
\* no overflow text, and also when the rendering raises or returns nothing
NeededPages(overflow) == IF overflow THEN 0..MaxTextPagesNeeded ELSE {0}

\* step 3 as it ran
MediaCall(images, auto_image, image_count, overflow, import_ok, multi_oks, single_ok, cover, needed) ==
    [images |-> images, auto_image |-> auto_image, image_count |-> image_count,
     overflow |-> overflow, import_ok |-> import_ok, multi_oks |-> multi_oks,
     single_ok |-> single_ok, cover |-> cover, needed |-> needed,
     resolved |-> MediaBeforeOverflow(images, auto_image, image_count,
                                      multi_oks, single_ok)]

NoMediaCall ==
    [images |-> << >>, auto_image |-> FALSE, image_count |-> 0,
     overflow |-> FALSE, import_ok |-> TRUE, multi_oks |-> {},
     single_ok |-> FALSE, cover |-> "not_needed", needed |-> 0,
     resolved |-> << >>]

\* the error that leaves step 3, "none" when it ends normally
MediaError(call) ==
    IF ~call.import_ok THEN "ImportError"
    ELSE IF call.cover = "raises" THEN "DefaultCoverError"
    ELSE "none"

----------------------------------------------------------------------------
(* xhs_auto.py, _add_tags(page, tags).  A tag is a number; the list          *)
(* <<1, ..., n>> stands for any list of n tags.                             *)

\* line 449: tags[:10]
TAG_LIMIT == 10

\* every tag of the list
TagsTakenAll(tags) == tags

\* line 449: `for tag in tags[:10]`
TagsTaken(tags) == SubSeq(tags, 1, Min(Len(tags), TAG_LIMIT))

\* after the tag was typed: a suggestion is clicked, a popup item is clicked,
\* or neither (line 459-481); a failure in these is swallowed
AfterTyped == {"suggestion", "popup", "plain"}

TaggingIdle ==
    [pc |-> "idle", tags |-> << >>, i |-> 0, tried |-> << >>, typed |-> << >>,
     added |-> 0]

\* line 450-481: the tag is typed into the editor and counted
TagTyped ==
    /\ tagging.pc = "loop"
    /\ tagging.i <= Len(TagsTaken(tagging.tags))
    /\ \E how \in AfterTyped :
          tagging' = [tagging EXCEPT
                         !.tried = Append(@, tagging.tags[tagging.i]),
                         !.typed = Append(@, tagging.tags[tagging.i]),
                         !.added = @ + 1,
                         !.i = @ + 1]
    /\ UNCHANGED notTagging

\* line 452-456, 483-484: locating, clicking or typing raises: logged, next tag
TagFails ==
    /\ tagging.pc = "loop"
    /\ tagging.i <= Len(TagsTaken(tagging.tags))
    /\ tagging' = [tagging EXCEPT
                      !.tried = Append(@, tagging.tags[tagging.i]),
                      !.i = @ + 1]
    /\ UNCHANGED notTagging

\* line 449, 486: the loop is over, the function returns
TagsDone ==
    /\ tagging.pc = "loop"
    /\ tagging.i > Len(TagsTaken(tagging.tags))
    /\ tagging' = [tagging EXCEPT !.pc = "returned"]
    /\ UNCHANGED notTagging

MaxReplyRuns == 2

----------------------------------------------------------------------------
(* comments.py: the comments database (data/comments.json) and auto_reply.  *)
(* A comment id is a number.  file: the "replied" list in the file; db: the *)
(* "replied" list of the run's in-memory database.                          *)

\* line 53-54: the ids kept in the "replied" list
REPLIED_KEEP == 2000

\* line 29-35: the database of a run: the file's, or a fresh one when the
\* file cannot be read or parsed
LoadDb(file, load_ok) == IF load_ok THEN file ELSE << >>

\* line 45: comment_id in db.get('replied', [])
AlreadyReplied(db, cid) == \E k \in 1..Len(db) : db[k] = cid

\* line 50-54: append an id not yet in the list, keep the last REPLIED_KEEP
MarkReplied(db, cid) ==
    IF AlreadyReplied(db, cid) THEN db
    ELSE LET longer == Append(db, cid)
         IN IF Len(longer) > REPLIED_KEEP
            THEN SubSeq(longer, Len(longer) - REPLIED_KEEP + 1, Len(longer))
            ELSE longer

NoResults == [total |-> 0, replied |-> 0, skipped |-> 0, failed |-> 0]

\* no run in progress, an empty database file, nothing sent yet
RepliesIdle ==
    [file |-> << >>, db |-> << >>, run |-> 0, pc |-> "idle", dry_run |-> FALSE,
     comments |-> << >>, i |-> 0, results |-> NoResults,
     sent |-> << >>, marked |-> {}, lost |-> FALSE]

\* the ids fetch_comments can return: distinct ids (line 98-100), old and new
CommentIds == {1, 2, REPLIED_KEEP + 1}
FetchedLists ==
    {<< >>} \cup {<<a>> : a \in CommentIds}
            \cup {<<p[1], p[2]>> : p \in {q \in CommentIds \X CommentIds : q[1] # q[2]}}

\* line 264-274: a run starts: load the database, fetch the comments
ReplyStart ==
    /\ replies.pc = "start"
    /\ \E load_ok \in BOOLEAN, comments \in FetchedLists, dry \in BOOLEAN :
          replies' = [replies EXCEPT
                         !.db = LoadDb(replies.file, load_ok),
                         !.lost = @ \/ ~load_ok,
                         !.dry_run = dry,
                         !.comments = comments,
                         !.i = 1,
                         !.results = [NoResults EXCEPT !.total = Len(comments)],
                         !.pc = "loop"]
    /\ UNCHANGED notReplies

\* line 276-282: the comment's id is in the database: skipped
ReplySkip ==
    /\ replies.pc = "loop"
    /\ replies.i <= Len(replies.comments)
    /\ AlreadyReplied(replies.db, replies.comments[replies.i])
    /\ replies' = [replies EXCEPT !.results.skipped = @ + 1, !.i = @ + 1]
    /\ UNCHANGED notReplies

\* line 284-319: no reply is generated, or reply_to_comment returns False:
\* counted as failed; or the run is a dry run: counted as replied
ReplyNotSent ==
    /\ replies.pc = "loop"
    /\ replies.i <= Len(replies.comments)
    /\ ~AlreadyReplied(replies.db, replies.comments[replies.i])
    /\ \E generated \in BOOLEAN :
          /\ replies' =
                IF generated /\ replies.dry_run
                THEN [replies EXCEPT !.results.replied = @ + 1, !.i = @ + 1]
                ELSE [replies EXCEPT !.results.failed = @ + 1, !.i = @ + 1]
    /\ UNCHANGED notReplies

\* line 311-318: reply_to_comment sent the reply; _mark_replied records the
\* id and saves the database (a failing save leaves auto_reply)
ReplySent ==
    /\ replies.pc = "loop"
    /\ replies.i <= Len(replies.comments)
    /\ ~AlreadyReplied(replies.db, replies.comments[replies.i])
    /\ ~replies.dry_run
    /\ \E save_ok \in BOOLEAN :
          LET cid == replies.comments[replies.i]
              db == MarkReplied(replies.db, cid)
          IN replies' =
                IF save_ok
                THEN [replies EXCEPT !.sent = Append(@, cid),
                                     !.db = db,
                                     !.file = db,
                                     !.marked = @ \cup {cid},
                                     !.results.replied = @ + 1,
                                     !.i = @ + 1]
                ELSE [replies EXCEPT !.sent = Append(@, cid),
                                     !.db = db,
                                     !.pc = "raised"]
    /\ UNCHANGED notReplies

\* line 325-326: the loop is over: save the database, return the results
ReplyFinish ==
    /\ replies.pc = "loop"
    /\ replies.i > Len(replies.comments)
    /\ \E save_ok \in BOOLEAN :
          replies' =
             IF save_ok
             THEN [replies EXCEPT !.file = replies.db, !.pc = "returned"]
             ELSE [replies EXCEPT !.pc = "raised"]
    /\ UNCHANGED notReplies

\* the next run of auto_reply, on the database file the last one left
ReplyNextRun ==
    /\ replies.pc \in {"returned", "raised"}
    /\ replies.run < MaxReplyRuns
    /\ replies' = [replies EXCEPT !.run = @ + 1, !.pc = "start", !.db = << >>,
                                  !.comments = << >>, !.i = 0,
                                  !.dry_run = FALSE, !.results = NoResults]
    /\ UNCHANGED notReplies

----------------------------------------------------------------------------
(* xhs_auto.py, publish_note: the outcome classifier (line 333-368).        *)

PUBLISH_PATH == <<"/publish/publish">>

\* the whole text, whatever the limit
TruncateNothing(text, limit) == text

\* text[:limit] is the prefix of text of min(len(text), limit) characters; a
\* prefix of a given text is known by its length
Truncate(text, limit) == Min(text, limit)

\* line 355-356: the text kept of a matched failure element
ERROR_TEXT_LIMIT == 100

\* error_msg: None, or the message built from the kept text
NoErrorMsg == << >>
ErrorMsg(text) == <<Truncate(text, ERROR_TEXT_LIMIT)>>

\* a failure-text element: is_visible() and the length of its stripped text
Marker(visible, text) == [visible |-> visible, text |-> text]

\* line 352-360: the first element, in query order, that is visible; 0: none
FirstVisible(markers) ==
    LET shown == {i \in 1..Len(markers) : markers[i].visible}
    IN IF shown = {} THEN 0 ELSE CHOOSE i \in shown : \A j \in shown : i <= j

\* the two locals as an earlier attempt left them
ClassifierStartKept(publish_success, error_msg) ==
    [publish_success |-> publish_success, error_msg |-> error_msg]

\* line 334-335: the two locals are set anew in every attempt
ClassifierStart(publish_success, error_msg) ==
    [publish_success |-> FALSE, error_msg |-> NoErrorMsg]

\* the checks with the failure texts looked for before the success signals
RunChecksMarkersFirst(start, url, success_marker, markers, url_late) ==
    LET hit == FirstVisible(markers)
        error_msg == IF hit # 0 THEN ErrorMsg(markers[hit].text)
                     ELSE start.error_msg
        marked == /\ error_msg = NoErrorMsg
                  /\ \/ start.publish_success
                     \/ ~Contains(PUBLISH_PATH, url)
                     \/ success_marker
        late == /\ ~marked
                /\ error_msg = NoErrorMsg
                /\ ~Contains(PUBLISH_PATH, url_late)
    IN [publish_success |-> marked \/ late, error_msg |-> error_msg]

\* line 337-368: the four checks. start: the two locals before them; url,
\* success_marker, markers: what the page shows after the click and the first
\* wait; url_late: page.url after the grace delay
RunChecks(start, url, success_marker, markers, url_late) ==
    LET left == start.publish_success \/ ~Contains(PUBLISH_PATH, url)  \* check 1
        marked == left \/ success_marker                               \* check 2
        hit == FirstVisible(markers)
        error_msg == IF ~marked /\ hit # 0                             \* check 3
                     THEN ErrorMsg(markers[hit].text)
                     ELSE start.error_msg
        late == /\ ~marked                                             \* check 4
                /\ error_msg = NoErrorMsg
                /\ ~Contains(PUBLISH_PATH, url_late)
    IN [publish_success |-> marked \/ late, error_msg |-> error_msg]

\* the classifier applied to a page
Classify(url, success_marker, markers, url_late) ==
    RunChecks([publish_success |-> FALSE, error_msg |-> NoErrorMsg],
              url, success_marker, markers, url_late)

\* the outcome variant the two flags stand for
Outcome(publish_success, error_msg) ==
    IF publish_success THEN "Success"
    ELSE IF error_msg # NoErrorMsg THEN "Failure"
    ELSE "Indeterminate"

\* line 374-393: what the attempt does with the two flags
DecideBranchRetryUncertain(publish_success, error_msg) ==
    IF publish_success THEN "return_success" ELSE "raise"

DecideBranch(publish_success, error_msg) ==
    IF publish_success THEN "return_success"
    ELSE IF error_msg # NoErrorMsg THEN "raise"
    ELSE "return_uncertain"

----------------------------------------------------------------------------
(* xhs_auto.py, publish_note(page, title, content, tags, images, dry_run,   *)
(* auto_image, image_count, overflow_text).                                *)

NAV_PUBLISH_RETRIES == 3
MAX_PUBLISH_RETRIES == 3

\* line 273, 285: the slices title[:20] and content[:1000]
TITLE_LIMIT == 20
BODY_LIMIT == 1000

\* the title and content arguments: both shorter, or both longer, than what
\* the slices keep
Requests ==
    {[title |-> TITLE_LIMIT - 1, content |-> BODY_LIMIT - 1],
     [title |-> TITLE_LIMIT + 1, content |-> BODY_LIMIT + 1]}

PublishIdle ==
    /\ p_pc = "idle"
    /\ dry_run = FALSE
    /\ title = 0
    /\ content = 0
    /\ p_steps = {}
    /\ p_nav_gotos = 0
    /\ p_media = << >>
    /\ media_call = NoMediaCall
    /\ p_preshot = "unset"
    /\ p_entered = {}
    /\ p_attempt = 0
    /\ p_success = FALSE
    /\ p_error_msg = NoErrorMsg
    /\ p_clicked = FALSE
    /\ p_health = "unchecked"
    /\ p_outcome = "none"
    /\ p_exc = "none"
    /\ p_hist = << >>
    /\ n_click = 0
    /\ reports = << >>
    /\ p_result = NoResult
    /\ p_raised = "none"

\* line 177-179: step 1, safe_navigate(page, XHS_PUBLISH, retries=3)
PubNavigate ==
    /\ p_pc = "start"
    /\ p_pc' = "navigating"
    /\ p_steps' = p_steps \cup {"navigate"}
    /\ NavStart(XHS_PUBLISH, NAV_PUBLISH_RETRIES)
    /\ UNCHANGED <<dry_run, title, content, p_nav_gotos, p_media, media_call, p_preshot, p_entered, n_click, reports, p_result, p_raised, loopVars>>
    /\ UNCHANGED <<pageVars, recVars, retryVars, extVars>>

\* line 180-184: safe_navigate raised: snapshot, report, return the failure
PubNavFailed ==
    /\ p_pc = "navigating"
    /\ nv_pc = "raised"
    /\ NavEnd
    /\ p_nav_gotos' = nv_gotos
    /\ \E shot_ok \in BOOLEAN, report_ok \in BOOLEAN :
          LET shot == save_error_snapshot("nav_publish_fail", shot_ok) IN
          IF report_ok
          THEN /\ reports' = Append(reports, save_report(FALSE, "NavigationFailed"))
               /\ p_result' = NavFailureResult(shot)
               /\ p_pc' = "done"
               /\ p_raised' = p_raised
          ELSE /\ p_pc' = "raised"
               /\ p_raised' = "ReportError"
               /\ UNCHANGED <<reports, p_result>>
    /\ UNCHANGED <<dry_run, title, content, p_steps, p_media, media_call, p_preshot, p_entered, n_click, loopVars>>
    /\ UNCHANGED <<pageVars, recVars, retryVars, extVars>>

\* line 185: safe_navigate returned
PubNavigated ==
    /\ p_pc = "navigating"
    /\ nv_pc = "returned"
    /\ NavEnd
    /\ p_pc' = "mode"
    /\ UNCHANGED <<dry_run, title, content, p_nav_gotos, p_steps, p_nav_gotos, p_media, media_call, p_preshot, p_entered, n_click, reports, p_result, p_raised, loopVars>>
    /\ UNCHANGED <<pageVars, recVars, retryVars, extVars>>

\* line 187-205: step 2, the evaluate call finds the tab, finds none, or
\* raises; the workflow goes on in each case
PubSelectMode ==
    /\ p_pc = "mode"
    /\ \E outcome \in {"clicked", "absent", "raised"} : p_pc' = "media"
    /\ p_steps' = p_steps \cup {"mode"}
    /\ UNCHANGED <<dry_run, title, content, p_nav_gotos, p_media, media_call, p_preshot, p_entered, loopVars, n_click, reports,
                   p_result, p_raised>>
    /\ UNCHANGED <<pageVars, navVars, recVars, retryVars, extVars>>

\* line 207-257: step 3, resolve the media list
PubResolveMedia ==
    /\ p_pc = "media"
    /\ \E images \in SuppliedImages, auto_image \in BOOLEAN,
          image_count \in ImageCounts, overflow \in BOOLEAN :
       \E import_ok \in ImportOutcomes(images, auto_image, image_count) :
       \E multi_oks \in MultiOutcomes(images, auto_image, image_count, import_ok) :
       \E single_ok \in SingleOutcomes(images, auto_image, import_ok, multi_oks) :
       \E cover \in CoverOutcomes(images, import_ok, multi_oks, single_ok),
          needed \in NeededPages(overflow) :
          LET call == MediaCall(images, auto_image, image_count, overflow,
                                import_ok, multi_oks, single_ok, cover, needed)
          IN /\ MediaError(call) = "none"
             /\ media_call' = call
             /\ p_media' = MediaAfterOverflow(call.resolved, needed)
    /\ p_pc' = "upload"
    /\ p_steps' = p_steps \cup {"media"}
    /\ UNCHANGED <<dry_run, title, content, p_nav_gotos, p_preshot, p_entered, n_click, reports, p_result, p_raised, loopVars>>
    /\ UNCHANGED <<pageVars, navVars, recVars, retryVars, extVars>>

\* line 259-267: hand image_paths to the file input; a failing upload is
\* logged and the workflow goes on.  image_paths, images, auto_image,
\* image_count and overflow_text are not read after line 264.
PubUpload ==
    /\ p_pc = "upload"
    /\ \E upload_ok \in BOOLEAN : p_media' = << >>
    /\ media_call' = NoMediaCall
    /\ p_pc' = "title"
    /\ p_steps' = p_steps \cup {"upload"}
    /\ UNCHANGED <<dry_run, title, content, p_nav_gotos, p_preshot, p_entered, n_click, reports, p_result, p_raised, loopVars>>
    /\ UNCHANGED <<pageVars, navVars, recVars, retryVars, extVars>>

\* line 212 -> 564: `from image_gen import generate_image` is outside any try
\* in _auto_generate_multi_images (image_gen imports PIL at its top), and
\* line 233, 238 -> 618-676: _generate_default_cover catches ImportError only
PubMediaRaises ==
    /\ p_pc = "media"
    /\ \E images \in SuppliedImages, auto_image \in BOOLEAN,
          image_count \in ImageCounts, overflow \in BOOLEAN :
       \E import_ok \in ImportOutcomes(images, auto_image, image_count) :
       \E multi_oks \in MultiOutcomes(images, auto_image, image_count, import_ok) :
       \E single_ok \in SingleOutcomes(images, auto_image, import_ok, multi_oks) :
       \E cover \in CoverOutcomes(images, import_ok, multi_oks, single_ok) :
          LET call == MediaCall(images, auto_image, image_count, overflow,
                                import_ok, multi_oks, single_ok, cover, 0)
          IN /\ MediaError(call) # "none"
             /\ media_call' = call
             /\ p_raised' = MediaError(call)
    /\ p_pc' = "raised"
    /\ p_steps' = p_steps \cup {"media"}
    /\ UNCHANGED <<dry_run, title, content, p_nav_gotos, p_media, p_preshot, p_entered, loopVars, n_click, reports,
                   p_result>>
    /\ UNCHANGED <<pageVars, navVars, recVars, retryVars, extVars>>

\* line 269-277: step 4, fill the title: fill() replaces what the field
\* holds; a failure is logged
PubFillTitle ==
    /\ p_pc = "title"
    /\ \E ok \in BOOLEAN :
          IF ok
          THEN /\ page_form' = [page_form EXCEPT !.title = Truncate(title, TITLE_LIMIT)]
               /\ p_entered' = p_entered \cup {"title"}
          ELSE UNCHANGED <<page_form, p_entered>>
    /\ p_pc' = "body"
    /\ p_steps' = p_steps \cup {"title"}
    /\ UNCHANGED <<dry_run, title, content, p_nav_gotos, p_media, media_call, p_preshot, loopVars,
                   n_click, reports, p_result, p_raised>>
    /\ UNCHANGED <<page_url, page_success, page_fail, navVars, recVars, retryVars, extVars>>

\* line 279-289: step 5, type the body: type() adds to what the editor
\* holds; a failure is logged
PubFillBody ==
    /\ p_pc = "body"
    /\ \E ok \in BOOLEAN :
          IF ok
          THEN /\ page_form' = [page_form EXCEPT
                                   !.body = @ + Truncate(content, BODY_LIMIT)]
               /\ p_entered' = p_entered \cup {"body"}
          ELSE UNCHANGED <<page_form, p_entered>>
    /\ p_pc' = "tags"
    /\ p_steps' = p_steps \cup {"body"}
    /\ UNCHANGED <<dry_run, title, content, p_nav_gotos, p_media, media_call, p_preshot, loopVars,
                   n_click, reports, p_result, p_raised>>
    /\ UNCHANGED <<page_url, page_success, page_fail, navVars, recVars, retryVars, extVars>>

\* line 291-293, 446-487: step 6, _add_tags catches each tag's failure
PubAddTags ==
    /\ p_pc = "tags"
    /\ \E all_ok \in BOOLEAN : p_pc' = "decl"
    /\ p_steps' = p_steps \cup {"tags"}
    /\ UNCHANGED <<dry_run, title, content, p_nav_gotos, p_media, media_call, p_preshot, p_entered, loopVars, n_click, reports,
                   p_result, p_raised>>
    /\ UNCHANGED <<pageVars, navVars, recVars, retryVars, extVars>>

\* line 292: no tags were given
PubNoTags ==
    /\ p_pc = "tags"
    /\ p_pc' = "decl"
    /\ UNCHANGED <<dry_run, title, content, p_nav_gotos, p_steps, p_media, media_call, p_preshot, p_entered, loopVars, n_click, reports,
                   p_result, p_raised>>
    /\ UNCHANGED <<pageVars, navVars, recVars, retryVars, extVars>>

\* line 295-299: step 7, _check_ai_declaration; a failure is logged
PubDeclare ==
    /\ p_pc = "decl"
    /\ \E ok \in BOOLEAN : p_pc' = "preshot"
    /\ p_steps' = p_steps \cup {"decl"}
    /\ UNCHANGED <<dry_run, title, content, p_nav_gotos, p_media, media_call, p_preshot, p_entered, loopVars, n_click, reports,
                   p_result, p_raised>>
    /\ UNCHANGED <<pageVars, navVars, recVars, retryVars, extVars>>

\* line 301-304: step 8, the pre-submit screenshot succeeds
PubPreShot ==
    /\ p_pc = "preshot"
    /\ p_pc' = "dry"
    /\ p_preshot' = "pre_publish"
    /\ UNCHANGED p_entered
    /\ p_steps' = p_steps \cup {"preshot"}
    /\ UNCHANGED <<dry_run, title, content, p_nav_gotos, p_media, media_call, n_click, reports, p_result, p_raised, loopVars>>
    /\ UNCHANGED <<pageVars, navVars, recVars, retryVars, extVars>>

\* line 303: page.screenshot is outside any try: its error leaves publish_note
PubPreShotRaises ==
    /\ p_pc = "preshot"
    /\ p_pc' = "raised"
    /\ p_raised' \in {"ScreenshotError"}
    /\ p_steps' = p_steps \cup {"preshot"}
    /\ UNCHANGED <<dry_run, title, content, p_nav_gotos, p_media, media_call, p_preshot, p_entered, loopVars, n_click, reports,
                   p_result>>
    /\ UNCHANGED <<pageVars, navVars, recVars, retryVars, extVars>>

\* line 307: `if dry_run`
DryRunShortCircuitNever(is_dry) == FALSE

DryRunShortCircuit(is_dry) == is_dry

\* line 307-314: step 9, the dry-run return
PubDryRun ==
    /\ p_pc = "dry"
    /\ DryRunShortCircuit(dry_run)
    /\ p_result' = DryRunResult(p_preshot)
    /\ p_pc' = "done"
    /\ UNCHANGED <<dry_run, title, content, p_nav_gotos, p_steps, p_media, media_call, p_preshot, p_entered, n_click, reports, p_raised, loopVars>>
    /\ UNCHANGED <<pageVars, navVars, recVars, retryVars, extVars>>

\* line 316-318: enter the submit loop
PubEnterLoop ==
    /\ p_pc = "dry"
    /\ ~DryRunShortCircuit(dry_run)
    /\ p_attempt' = 1
    /\ p_pc' = "health"
    /\ UNCHANGED <<dry_run, title, content, p_nav_gotos, p_steps, p_media, media_call, p_preshot, p_entered, p_success, p_error_msg,
                   p_clicked, p_health, p_outcome, p_exc, p_hist, n_click, reports, p_result,
                   p_raised>>
    /\ UNCHANGED <<pageVars, navVars, recVars, retryVars, extVars>>

\* the frame of the steps of the submit loop
LoopFrame ==
    /\ UNCHANGED <<dry_run, title, content, p_nav_gotos, p_media, media_call, p_preshot, p_entered>>
    /\ UNCHANGED <<retryVars, extVars>>

\* the loop's locals that the health check and the recovery leave alone
HealthFrame ==
    UNCHANGED <<p_attempt, p_success, p_error_msg, p_clicked, p_outcome, p_hist>>

\* line 321-322: check_page_health reports the page healthy
PubHealthOk ==
    /\ p_pc = "health"
    /\ \E eval_ok \in BOOLEAN : check_page_health(page_url, eval_ok).ok
    /\ p_health' = "ok"
    /\ p_pc' = "click"
    /\ LoopFrame
    /\ HealthFrame
    /\ UNCHANGED <<p_steps, p_exc, n_click, reports, p_result, p_raised>>
    /\ UNCHANGED <<pageVars, navVars, recVars>>

\* line 322-324: the page is unhealthy: call recover_page(page, XHS_PUBLISH)
PubHealthBad ==
    /\ p_pc = "health"
    /\ \E eval_ok \in BOOLEAN : ~check_page_health(page_url, eval_ok).ok
    /\ p_pc' = "recovering"
    /\ RecoverStart(XHS_PUBLISH)
    /\ LoopFrame
    /\ UNCHANGED <<p_steps, loopVars, n_click, reports, p_result, p_raised>>
    /\ UNCHANGED <<pageVars, navVars>>

\* line 324: recover_page returned True, after a navigation or without one
PubRecovered ==
    /\ p_pc = "recovering"
    /\ rc_pc = "returned"
    /\ rc_ret
    /\ p_health' = IF rc_gotos > 0 THEN "renavigated" ELSE "rechecked"
    /\ RecoverEnd
    /\ p_pc' = "click"
    /\ LoopFrame
    /\ HealthFrame
    /\ UNCHANGED <<p_steps, p_exc, n_click, reports, p_result, p_raised>>
    /\ UNCHANGED <<pageVars, navVars>>

\* recover_page returned False and the attempt goes on to the click
PubRecoverFailedThenClick ==
    /\ p_pc = "recovering"
    /\ rc_pc = "returned"
    /\ ~rc_ret
    /\ p_health' = "failed"
    /\ RecoverEnd
    /\ p_pc' = "click"
    /\ LoopFrame
    /\ HealthFrame
    /\ UNCHANGED <<p_steps, p_exc, n_click, reports, p_result, p_raised>>
    /\ UNCHANGED <<pageVars, navVars>>

\* line 324-325: recover_page returned False: raise RuntimeError
PubRecoverFailed ==
    /\ p_pc = "recovering"
    /\ rc_pc = "returned"
    /\ ~rc_ret
    /\ p_health' = "failed"
    /\ RecoverEnd
    /\ p_pc' = "except"
    /\ p_exc' = "RecoverFailed"
    /\ LoopFrame
    /\ HealthFrame
    /\ UNCHANGED <<p_steps, n_click, reports, p_result, p_raised>>
    /\ UNCHANGED <<pageVars, navVars>>

\* what the platform can show after a click on submit: the composer still,
\* or the page it redirects to after a post
AfterSubmit(url) == {url, NOTE_MANAGER}

\* the failure texts it can show then: none, or one long visible text
SubmitMarkers == {NoMarkers, <<Marker(TRUE, ERROR_TEXT_LIMIT + 1)>>}

\* line 327-331: the submit button is visible and is clicked
PubClick ==
    /\ p_pc = "click"
    /\ n_click' = n_click + 1
    /\ p_clicked' = TRUE
    /\ UNCHANGED p_health
    /\ p_steps' = p_steps \cup {"submit"}
    /\ page_url' \in AfterSubmit(page_url)
    /\ page_success' \in BOOLEAN
    /\ page_fail' \in SubmitMarkers
    /\ page_form' = IF page_url' = page_url THEN page_form ELSE BlankForm
    /\ p_pc' = "classify"
    /\ LoopFrame
    /\ UNCHANGED <<p_attempt, p_success, p_error_msg, p_outcome, p_exc, p_hist,
                   reports, p_result, p_raised>>
    /\ UNCHANGED <<navVars, recVars>>

\* line 327-329: wait_for or click raises: nothing was clicked
PubClickRaises ==
    /\ p_pc = "click"
    /\ p_steps' = p_steps \cup {"submit"}
    /\ p_pc' = "except"
    /\ p_exc' = "ClickError"
    /\ LoopFrame
    /\ UNCHANGED <<p_attempt, p_success, p_error_msg, p_clicked, p_health, p_outcome, p_hist,
                   n_click, reports, p_result, p_raised>>
    /\ UNCHANGED <<pageVars, navVars, recVars>>

\* line 363: check 4 runs when checks 1-3 left both locals unset
GraceCheckRuns(start, url, success_marker, markers) ==
    LET early == RunChecks(start, url, success_marker, markers, url)
    IN /\ Contains(PUBLISH_PATH, url)
       /\ ~early.publish_success
       /\ early.error_msg = NoErrorMsg

\* line 333-368: the classifier's four checks
PubClassify ==
    /\ p_pc = "classify"
    /\ \E url_late \in AfterSubmit(page_url) :
          LET start == ClassifierStart(p_success, p_error_msg)
              c == RunChecks(start, page_url, page_success, page_fail, url_late)
          IN
          /\ p_success' = c.publish_success
          /\ p_error_msg' = c.error_msg
          /\ p_outcome' = Outcome(c.publish_success, c.error_msg)
          /\ page_url' = IF GraceCheckRuns(start, page_url, page_success, page_fail)
                         THEN url_late ELSE page_url
          /\ page_form' = IF page_url' = page_url THEN page_form ELSE BlankForm
    /\ p_pc' = "postshot"
    /\ LoopFrame
    /\ UNCHANGED <<page_success, page_fail>>
    /\ UNCHANGED <<p_steps, p_attempt, p_clicked, p_health, p_exc, p_hist, n_click, reports,
                   p_result, p_raised>>
    /\ UNCHANGED <<navVars, recVars>>

\* line 338-366: a page call of the classifier raises, the two locals still
\* as line 334-335 set them
PubClassifyRaises ==
    /\ p_pc = "classify"
    /\ p_pc' = "except"
    /\ p_exc' = "ClassifyError"
    /\ p_success' = ClassifierStart(p_success, p_error_msg).publish_success
    /\ p_error_msg' = ClassifierStart(p_success, p_error_msg).error_msg
    /\ LoopFrame
    /\ UNCHANGED <<p_steps, p_attempt, p_clicked, p_health, p_outcome,
                   p_hist, n_click, reports, p_result, p_raised>>
    /\ UNCHANGED <<pageVars, navVars, recVars>>

\* line 370-372: the post-check screenshot succeeds
PubPostShot ==
    /\ p_pc = "postshot"
    /\ p_pc' = "decide"
    /\ LoopFrame
    /\ UNCHANGED <<p_steps, loopVars, n_click, reports, p_result, p_raised>>
    /\ UNCHANGED <<pageVars, navVars, recVars>>

\* line 372: the post-check screenshot raises
PubPostShotRaises ==
    /\ p_pc = "postshot"
    /\ p_pc' = "except"
    /\ p_exc' = "ScreenshotError"
    /\ LoopFrame
    /\ UNCHANGED <<p_steps, p_attempt, p_success, p_error_msg, p_clicked, p_health, p_outcome,
                   p_hist, n_click, reports, p_result, p_raised>>
    /\ UNCHANGED <<pageVars, navVars, recVars>>

\* how a finished attempt went: end is "returned" or the exception caught
AttemptRecord(end) ==
    [clicked |-> p_clicked, outcome |-> p_outcome, end |-> end]

\* a return from inside the loop, after its report was written
PubReturn(record, result) ==
    /\ reports' = Append(reports, record)
    /\ p_result' = result
    /\ p_hist' = Append(p_hist, AttemptRecord("returned"))
    /\ p_pc' = "done"
    /\ UNCHANGED <<p_attempt, p_success, p_error_msg, p_clicked, p_health, p_outcome, p_exc,
                   p_raised>>

\* _save_report raises inside the try: the except clause catches it
PubReportRaises ==
    /\ p_pc' = "except"
    /\ p_exc' = "ReportError"
    /\ UNCHANGED <<p_attempt, p_success, p_error_msg, p_clicked, p_health, p_outcome, p_hist,
                   reports, p_result, p_raised>>

\* line 374-381: publish_success: report and return the success
PubReturnSuccess ==
    /\ p_pc = "decide"
    /\ DecideBranch(p_success, p_error_msg) = "return_success"
    /\ \E report_ok \in BOOLEAN :
          IF report_ok
          THEN PubReturn(save_report(TRUE, "none"), SuccessResult("published"))
          ELSE PubReportRaises
    /\ LoopFrame
    /\ UNCHANGED <<p_steps, n_click>>
    /\ UNCHANGED <<pageVars, navVars, recVars>>

\* line 382-383: error_msg: raise RuntimeError(error_msg)
PubRaiseFailure ==
    /\ p_pc = "decide"
    /\ DecideBranch(p_success, p_error_msg) = "raise"
    /\ p_pc' = "except"
    /\ p_exc' = "MarkerFailure"
    /\ LoopFrame
    /\ UNCHANGED <<p_steps, p_attempt, p_success, p_error_msg, p_clicked, p_health, p_outcome,
                   p_hist, n_click, reports, p_result, p_raised>>
    /\ UNCHANGED <<pageVars, navVars, recVars>>

\* line 384-393: neither: report and return the uncertain result
PubReturnUncertain ==
    /\ p_pc = "decide"
    /\ DecideBranch(p_success, p_error_msg) = "return_uncertain"
    /\ \E report_ok \in BOOLEAN :
          IF report_ok
          THEN PubReturn(save_report(FALSE, "Indeterminate"),
                         UncertainResult("published"))
          ELSE PubReportRaises
    /\ LoopFrame
    /\ UNCHANGED <<p_steps, n_click>>
    /\ UNCHANGED <<pageVars, navVars, recVars>>

\* the test of line 398, off by one
AttemptsRemainOff(attempt) == attempt + 1 < MAX_PUBLISH_RETRIES

\* line 398: `if attempt < max_publish_retries`
AttemptsRemain(attempt) == attempt < MAX_PUBLISH_RETRIES

\* the except clause with attempts left, writing a report record each time
PubRetryReporting ==
    /\ p_pc = "except"
    /\ AttemptsRemain(p_attempt)
    /\ p_hist' = Append(p_hist, AttemptRecord(p_exc))
    /\ reports' = Append(reports, save_report(FALSE, p_exc))
    /\ p_attempt' = p_attempt + 1
    /\ p_clicked' = FALSE
    /\ p_health' = "unchecked"
    /\ p_outcome' = "none"
    /\ p_exc' = "none"
    /\ p_pc' = "health"
    /\ LoopFrame
    /\ UNCHANGED <<p_success, p_error_msg, p_steps, n_click, p_result, p_raised>>
    /\ UNCHANGED <<pageVars, navVars, recVars>>

\* line 395-399: the except clause with attempts left: snapshot, sleep, next
\* attempt
PubRetry ==
    /\ p_pc = "except"
    /\ AttemptsRemain(p_attempt)
    /\ p_hist' = Append(p_hist, AttemptRecord(p_exc))
    /\ p_attempt' = p_attempt + 1
    /\ p_clicked' = FALSE
    /\ p_health' = "unchecked"
    /\ p_outcome' = "none"
    /\ p_exc' = "none"
    /\ p_pc' = "health"
    /\ LoopFrame
    /\ UNCHANGED <<p_success, p_error_msg, p_steps, n_click, reports, p_result, p_raised>>
    /\ UNCHANGED <<pageVars, navVars, recVars>>

\* line 400-409: the except clause of the last attempt: snapshot, report,
\* return the failure
PubFinalFailure ==
    /\ p_pc = "except"
    /\ ~AttemptsRemain(p_attempt)
    /\ p_hist' = Append(p_hist, AttemptRecord(p_exc))
    /\ \E shot_ok \in BOOLEAN, report_ok \in BOOLEAN :
          LET err_shot == save_error_snapshot("publish_final_fail", shot_ok) IN
          IF report_ok
          THEN /\ reports' = Append(reports, save_report(FALSE, p_exc))
               /\ p_result' = FinalFailureResult(p_exc, err_shot, MAX_PUBLISH_RETRIES)
               /\ p_pc' = "done"
               /\ p_raised' = p_raised
          ELSE /\ p_pc' = "raised"
               /\ p_raised' = "ReportError"
               /\ UNCHANGED <<reports, p_result>>
    /\ LoopFrame
    /\ UNCHANGED <<p_steps, p_attempt, p_success, p_error_msg, p_clicked, p_health, p_outcome,
                   p_exc, n_click>>
    /\ UNCHANGED <<pageVars, navVars, recVars>>

----------------------------------------------------------------------------
(* accounts.py: the account store, data/accounts.json.  `ids` are the keys  *)
(* of data['accounts'] in insertion order, `used` the ids whose             *)
(* last_used_at is set, `dirs` the browser data directories on disk.        *)

AccountIds == {"", "main", "alt"}

EmptyStore == [ids |-> << >>, current |-> None, used |-> {}]

AccountsIdle ==
    [file |-> EmptyStore, readable |-> TRUE, dirs |-> {},
     op |-> "none", arg |-> None, ret |-> None, before |-> EmptyStore]

Keys(ids) == {ids[k] : k \in 1..Len(ids)}

\* `not data['current']`: None and the empty string are both false
Falsy(v) == v = None \/ v = ""

\* line 24-33: the file's content, or the empty store when it cannot be
\* parsed (a missing file reads as the empty store too)
load_accounts(acc) == IF acc.readable THEN acc.file ELSE EmptyStore

\* line 36-39: open(..., 'w') empties the file, json.dump fills it; when the
\* write fails the file is left cut short
save_accounts(acc, data, written) ==
    IF written
    THEN [acc EXCEPT !.file = data, !.readable = TRUE, !.ret = "True"]
    ELSE [acc EXCEPT !.readable = FALSE, !.ret = "raised"]

\* line 76-78: the first account becomes the current one
CurrentAfterAdd(current, account_id) == IF Falsy(current) THEN account_id ELSE current

\* line 74-78
add_account(data, account_id) ==
    [data EXCEPT !.ids = Append(data.ids, account_id),
                 !.current = CurrentAfterAdd(data.current, account_id)]

\* line 125-129
switch_account(data, account_id) ==
    [data EXCEPT !.current = account_id, !.used = data.used \cup {account_id}]

CurrentAfterRemoveKept(ids, current, account_id) == current

\* line 176-182: ids are the keys left after the del
CurrentAfterRemove(ids, current, account_id) ==
    IF current = account_id
    THEN IF ids # << >> THEN ids[1] ELSE None
    ELSE current

\* line 174-182
remove_account(data, account_id) ==
    LET ids == SelectSeq(data.ids, LAMBDA k : k # account_id) IN
    [ids |-> ids,
     current |-> CurrentAfterRemove(ids, data.current, account_id),
     used |-> data.used \ {account_id}]

Called(op, account_id) ==
    [accounts EXCEPT !.op = op, !.arg = account_id, !.before = load_accounts(accounts)]

\* line 42-86
AddAccount ==
    /\ \E account_id \in AccountIds, mkdir_ok \in BOOLEAN, written \in BOOLEAN :
          LET acc == Called("add_account", account_id)
              data == load_accounts(accounts) IN
          accounts' =
             IF account_id \in Keys(data.ids) THEN [acc EXCEPT !.ret = "False"]
             ELSE IF ~mkdir_ok THEN [acc EXCEPT !.ret = "raised"]
             ELSE save_accounts([acc EXCEPT !.dirs = acc.dirs \cup {account_id}],
                                add_account(data, account_id), written)
    /\ UNCHANGED notAccounts

\* line 106-139
SwitchAccount ==
    /\ \E account_id \in AccountIds, written \in BOOLEAN :
          LET acc == Called("switch_account", account_id)
              data == load_accounts(accounts) IN
          accounts' =
             IF account_id \notin Keys(data.ids) THEN [acc EXCEPT !.ret = "False"]
             ELSE save_accounts(acc, switch_account(data, account_id), written)
    /\ UNCHANGED notAccounts

\* line 142-192: shutil.rmtree failing is caught and printed
RemoveAccount ==
    /\ \E account_id \in AccountIds, keep_data \in BOOLEAN, rmtree_ok \in BOOLEAN,
          written \in BOOLEAN :
          LET acc == Called("remove_account", account_id)
              data == load_accounts(accounts)
              dirs == IF keep_data \/ ~rmtree_ok THEN acc.dirs
                      ELSE acc.dirs \ {account_id} IN
          accounts' =
             IF account_id \notin Keys(data.ids) THEN [acc EXCEPT !.ret = "False"]
             ELSE save_accounts([acc EXCEPT !.dirs = dirs],
                                remove_account(data, account_id), written)
    /\ UNCHANGED notAccounts

----------------------------------------------------------------------------
(* Initial values of each part.                                           *)

PageIdle ==
    /\ page_url = ABOUT_BLANK
    /\ page_success = FALSE
    /\ page_fail = NoMarkers
    /\ page_form = BlankForm

NavIdle ==
    /\ nv_pc = "idle"
    /\ nv_target = EMPTY_URL
    /\ nv_retries = 0
    /\ nv_attempt = 0
    /\ nv_gotos = 0
    /\ nv_reloads = 0
    /\ nv_snaps = << >>

RecoverIdle ==
    /\ rc_pc = "idle"
    /\ rc_target = EMPTY_URL
    /\ rc_health = NoHealth
    /\ rc_ret = FALSE
    /\ rc_url0 = EMPTY_URL
    /\ rc_gotos = 0
    /\ rc_reloads = 0
    /\ rc_sleeps = 0

RetryIdle ==
    /\ rt_pc = "idle"
    /\ rt_max = 0
    /\ rt_recov = {}
    /\ rt_delay0 = 0
    /\ rt_backoff = 0
    /\ rt_attempt = 0
    /\ rt_delay = 0
    /\ rt_last = NoError
    /\ rt_calls = << >>
    /\ rt_sleeps = << >>
    /\ rt_out = NoError

ExtIdle ==
    /\ click = ClickIdle
    /\ tagging = TaggingIdle
    /\ probe = ProbeIdle
    /\ replies = RepliesIdle
    /\ accounts = AccountsIdle

vars == <<pageVars, navVars, recVars, retryVars, pubVars, extVars>>

----------------------------------------------------------------------------
(* The retry wrapper alone: one call of a decorated function, for every    *)
(* policy of the bounded sets and every behaviour of the function.        *)

InitRetry ==
    /\ ExtIdle
    /\ PageIdle /\ NavIdle /\ RecoverIdle /\ PublishIdle
    /\ rt_pc = "enter"
    /\ rt_max \in 0..MaxRetries
    /\ rt_recov \in {ErrorTypes, {"TimeoutError"}}
    /\ rt_delay0 \in Delays
    /\ rt_backoff \in Backoffs
    /\ rt_attempt = 0
    /\ rt_delay = 0
    /\ rt_last = NoError
    /\ rt_calls = << >>
    /\ rt_sleeps = << >>
    /\ rt_out = NoError

NextRetry ==
    \/ RetryEnter
    \/ RetryCallReturns
    \/ RetryCallRecoverable
    \/ RetryCallFatal
    \/ RetrySleep
    \/ RetryNext

SpecRetry == InitRetry /\ [][NextRetry]_vars

----------------------------------------------------------------------------
(* recover_page alone: one call on any page and target.                    *)

Targets == {XHS_PUBLISH, XHS_CREATOR}

InitRecover ==
    /\ ExtIdle
    /\ page_url \in Urls
    /\ page_success = FALSE
    /\ page_fail = NoMarkers
    /\ page_form = BlankForm
    /\ NavIdle /\ RetryIdle /\ PublishIdle
    /\ rc_pc = "check"
    /\ rc_target \in Targets
    /\ rc_health = NoHealth
    /\ rc_ret = FALSE
    /\ rc_url0 = page_url
    /\ rc_gotos = 0
    /\ rc_reloads = 0
    /\ rc_sleeps = 0

NextRecover ==
    \/ RecoverNoop
    \/ RecoverNavigate
    \/ RecoverNavReturned
    \/ RecoverNavRaised
    \/ NavGotoOk
    \/ NavGotoFail
    \/ NavReload
    \/ NavSnapshot

SpecRecover == InitRecover /\ [][NextRecover]_vars

----------------------------------------------------------------------------
(* The outcome classifier alone: one attempt of the submit loop stands right *)
(* after its click, on any page the platform can show then.                  *)

MaxMarkers == 2

\* the lengths of a failure element's text, around what line 356 keeps
MarkerTexts == {ERROR_TEXT_LIMIT - 1, ERROR_TEXT_LIMIT, ERROR_TEXT_LIMIT + 1}

\* the failure-text elements of a page: up to MaxMarkers of them, each
\* visible or hidden
MarkerLists ==
    UNION {[1..n -> {Marker(visible, text) :
                        visible \in BOOLEAN, text \in MarkerTexts}] :
           n \in 0..MaxMarkers}

\* what the attempt before left behind: its record, and the two locals
NoEarlierAttempt ==
    [hist |-> << >>, publish_success |-> FALSE, error_msg |-> NoErrorMsg]
EarlierAttempts ==
    {NoEarlierAttempt,
     [hist |-> <<[clicked |-> TRUE, outcome |-> "Success",
                  end |-> "ScreenshotError"]>>,
      publish_success |-> TRUE, error_msg |-> NoErrorMsg],
     [hist |-> <<[clicked |-> TRUE, outcome |-> "Indeterminate",
                  end |-> "ScreenshotError"]>>,
      publish_success |-> FALSE, error_msg |-> NoErrorMsg],
     [hist |-> <<[clicked |-> TRUE, outcome |-> "Failure",
                  end |-> "MarkerFailure"]>>,
      publish_success |-> FALSE, error_msg |-> ErrorMsg(ERROR_TEXT_LIMIT + 1)]}

InitClassify ==
    /\ ExtIdle
    /\ page_url \in {XHS_PUBLISH, NOTE_MANAGER}
    /\ page_success \in BOOLEAN
    /\ page_fail \in MarkerLists
    /\ page_form = BlankForm
    /\ NavIdle /\ RecoverIdle /\ RetryIdle
    /\ p_pc = "classify"
    /\ dry_run = FALSE
    /\ title = TITLE_LIMIT - 1
    /\ content = BODY_LIMIT - 1
    /\ p_steps = {"navigate", "mode", "media", "upload", "title", "body",
                  "tags", "decl", "preshot", "submit"}
    /\ p_nav_gotos = 1
    /\ p_media = << >>
    /\ media_call = NoMediaCall
    /\ p_preshot = "pre_publish"
    /\ p_entered = {}
    /\ \E earlier \in EarlierAttempts :
          /\ p_hist = earlier.hist
          /\ p_attempt = Len(earlier.hist) + 1
          /\ n_click = Len(earlier.hist) + 1
          /\ p_success = earlier.publish_success
          /\ p_error_msg = earlier.error_msg
    /\ p_clicked = TRUE
    /\ p_health = "ok"
    /\ p_outcome = "none"
    /\ p_exc = "none"
    /\ reports = << >>
    /\ p_result = NoResult
    /\ p_raised = "none"

NextClassify ==
    \/ PubClassify
    \/ PubClassifyRaises

SpecClassify == InitClassify /\ [][NextClassify]_vars

----------------------------------------------------------------------------
(* safe_navigate alone: one call, with any retries argument.                *)

MaxNavRetries == 3

InitNav ==
    /\ ExtIdle
    /\ page_url \in Urls
    /\ page_success = FALSE
    /\ page_fail = NoMarkers
    /\ page_form = BlankForm
    /\ RecoverIdle /\ RetryIdle /\ PublishIdle
    /\ nv_pc = "goto"
    /\ nv_target \in Targets
    /\ nv_retries \in 1..MaxNavRetries
    /\ nv_attempt = 1
    /\ nv_gotos = 0
    /\ nv_reloads = 0
    /\ nv_snaps = << >>

NextNav ==
    \/ NavGotoOk
    \/ NavGotoFail
    \/ NavReload
    \/ NavSnapshot

SpecNav == InitNav /\ [][NextNav]_vars

----------------------------------------------------------------------------
(* safe_click and safe_fill alone: one call, with any retries argument.     *)

MaxSafeRetries == 3

InitSafe ==
    /\ PageIdle /\ NavIdle /\ RecoverIdle /\ RetryIdle /\ PublishIdle
    /\ tagging = TaggingIdle
    /\ probe = ProbeIdle
    /\ replies = RepliesIdle
    /\ accounts = AccountsIdle
    /\ \E op \in {"click", "fill"}, retries \in 1..MaxSafeRetries :
          click = [pc |-> "try", op |-> op, retries |-> retries, attempt |-> 1,
                   log |-> << >>, sleeps |-> 0, ret |-> None]

NextSafe ==
    \/ SafeAttemptOk
    \/ SafeAttemptRaises
    \/ SafeSleep

SpecSafe == InitSafe /\ [][NextSafe]_vars

----------------------------------------------------------------------------
(* _add_tags alone: one call, with a tag list of any length.                *)

MaxTags == 11

InitTags ==
    /\ PageIdle /\ NavIdle /\ RecoverIdle /\ RetryIdle /\ PublishIdle
    /\ click = ClickIdle
    /\ probe = ProbeIdle
    /\ replies = RepliesIdle
    /\ accounts = AccountsIdle
    /\ \E n \in 0..MaxTags :
          tagging = [pc |-> "loop", tags |-> [k \in 1..n |-> k], i |-> 1,
                     tried |-> << >>, typed |-> << >>, added |-> 0]

NextTags ==
    \/ TagTyped
    \/ TagFails
    \/ TagsDone

SpecTags == InitTags /\ [][NextTags]_vars

----------------------------------------------------------------------------
(* check_page_health alone: one call, on a page with any URL.               *)

MaxUrlSegments == 2

UrlSegments ==
    {"https://creator.xiaohongshu.com", "/publish/publish", "/login",
     "?from=", "error", "about:blank"}

ProbeUrls == UNION {[1..n -> UrlSegments] : n \in 0..MaxUrlSegments}

InitProbe ==
    /\ page_url \in ProbeUrls
    /\ page_success = FALSE
    /\ page_fail = NoMarkers
    /\ page_form = BlankForm
    /\ NavIdle /\ RecoverIdle /\ RetryIdle /\ PublishIdle
    /\ click = ClickIdle
    /\ tagging = TaggingIdle
    /\ replies = RepliesIdle
    /\ accounts = AccountsIdle
    /\ probe = [pc |-> "url", fault |-> "none", ret |-> NoHealth]

NextProbe ==
    \/ ProbeUrlRaises
    \/ ProbeChecks

SpecProbe == InitProbe /\ [][NextProbe]_vars

----------------------------------------------------------------------------
(* auto_reply: runs one after the other on one database file, which is      *)
(* empty at first or holds REPLIED_KEEP ids already.                        *)

FullFile == [k \in 1..REPLIED_KEEP |-> k]

InitReply ==
    /\ PageIdle /\ NavIdle /\ RecoverIdle /\ RetryIdle /\ PublishIdle
    /\ click = ClickIdle
    /\ tagging = TaggingIdle
    /\ probe = ProbeIdle
    /\ accounts = AccountsIdle
    /\ \E file \in {<< >>, FullFile} :
          replies = [RepliesIdle EXCEPT
                        !.file = file,
                        !.marked = {file[k] : k \in 1..Len(file)},
                        !.run = 1,
                        !.pc = "start"]

NextReply ==
    \/ ReplyStart
    \/ ReplySkip
    \/ ReplyNotSent
    \/ ReplySent
    \/ ReplyFinish
    \/ ReplyNextRun

SpecReply == InitReply /\ [][NextReply]_vars

----------------------------------------------------------------------------
(* The account store: add_account, switch_account and remove_account called *)
(* one after the other, in any order, from an empty store.                  *)

InitAccounts ==
    /\ PageIdle /\ NavIdle /\ RecoverIdle /\ RetryIdle /\ PublishIdle
    /\ click = ClickIdle
    /\ tagging = TaggingIdle
    /\ probe = ProbeIdle
    /\ replies = RepliesIdle
    /\ accounts = AccountsIdle

NextAccounts ==
    \/ AddAccount
    \/ SwitchAccount
    \/ RemoveAccount

SpecAccounts == InitAccounts /\ [][NextAccounts]_vars

----------------------------------------------------------------------------
(* One invocation of publish_note, on a page the caller left on the        *)
(* creator home (cmd_publish calls check_login first).                     *)

Init ==
    /\ ExtIdle
    /\ page_url = XHS_CREATOR
    /\ page_success = FALSE
    /\ page_fail = NoMarkers
    /\ page_form = BlankForm
    /\ NavIdle /\ RecoverIdle /\ RetryIdle
    /\ p_pc = "start"
    /\ dry_run \in BOOLEAN
    /\ \E request \in Requests : title = request.title /\ content = request.content
    /\ p_steps = {}
    /\ p_nav_gotos = 0
    /\ p_media = << >>
    /\ media_call = NoMediaCall
    /\ p_preshot = "unset"
    /\ p_entered = {}
    /\ p_attempt = 0
    /\ p_success = FALSE
    /\ p_error_msg = NoErrorMsg
    /\ p_clicked = FALSE
    /\ p_health = "unchecked"
    /\ p_outcome = "none"
    /\ p_exc = "none"
    /\ p_hist = << >>
    /\ n_click = 0
    /\ reports = << >>
    /\ p_result = NoResult
    /\ p_raised = "none"

Next ==
    \/ PubNavigate
    \/ PubNavFailed
    \/ PubNavigated
    \/ PubSelectMode
    \/ PubResolveMedia
    \/ PubUpload
    \/ PubMediaRaises
    \/ PubFillTitle
    \/ PubFillBody
    \/ PubAddTags
    \/ PubNoTags
    \/ PubDeclare
    \/ PubPreShot
    \/ PubPreShotRaises
    \/ PubDryRun
    \/ PubEnterLoop
    \/ PubHealthOk
    \/ PubHealthBad
    \/ PubRecovered
    \/ PubRecoverFailed
    \/ PubClick
    \/ PubClickRaises
    \/ PubClassify
    \/ PubClassifyRaises
    \/ PubPostShot
    \/ PubPostShotRaises
    \/ PubReturnSuccess
    \/ PubRaiseFailure
    \/ PubReturnUncertain
    \/ PubRetry
    \/ PubFinalFailure
    \/ RecoverNoop
    \/ RecoverNavigate
    \/ RecoverNavReturned
    \/ RecoverNavRaised
    \/ NavGotoOk
    \/ NavGotoFail
    \/ NavReload
    \/ NavSnapshot

Spec == Init /\ [][Next]_vars

----------------------------------------------------------------------------
(* The claims about publish_note, checked under Spec.                      *)

Returned == p_pc = "done"
Escaped == p_pc = "raised"
LastAttempt == p_hist[Len(p_hist)]

\* C1: in every invocation of publish_note the submit button is clicked at
\* most once; a retry of the submit step after a click does not click again.
C1_AtMostOneSubmitClick == n_click <= 1

C4_NavFailureReturnsFailure ==
    (p_nav_gotos = NAV_PUBLISH_RETRIES) =>
        /\ Returned
        /\ ~p_result.success
        /\ p_result.error = "NavigationFailed"
        /\ p_steps = {"navigate"}
        /\ n_click = 0

\* C5: no failure in steps 2-9 makes publish_note raise: an invocation that
\* passed navigation returns a result value.
C5_Steps2to9NeverRaise ==
    Escaped => ("mode" \notin p_steps \/ "submit" \in p_steps)

\* C6: a run whose final classification is Indeterminate returns a value
\* marked uncertain, distinct from every failure and never a success, and its
\* report record is neither a success nor counted as a failure.
C6_IndeterminateIsDistinct ==
    (Returned /\ Len(p_hist) > 0 /\ LastAttempt.outcome = "Indeterminate")
    => /\ p_result.uncertain
       /\ ~p_result.success
       /\ Len(reports) = 1
       /\ ~reports[1].success
       /\ ~CountsAsFailed(reports[1])

C8_ScreenshotNeverNull ==
    (Returned /\ ~p_result.success) => p_result.screenshot # None

----------------------------------------------------------------------------
(* The claim about the retry decorator, checked under SpecRetry.           *)

AllCallsFailedRecoverably ==
    \A i \in 1..Len(rt_calls) :
        rt_calls[i].kind = "error" /\ rt_calls[i].type \in rt_recov

\* C9: with max_retries = N >= 1 and an operation that fails with a
\* recoverable error on every call, the operation is called exactly N times
\* and the error raised to the caller is the error raised by the N-th call.
C9_ExactlyNAttempts ==
    (rt_max >= 1 /\ AllCallsFailedRecoverably) =>
        /\ Len(rt_calls) <= rt_max
        /\ rt_pc = "raised" =>
              /\ Len(rt_calls) = rt_max
              /\ rt_out = rt_calls[rt_max]
        /\ rt_pc # "returned"

\* C9 witness: three failing calls with different errors, the third raised.
C9_Witness ==
    /\ rt_pc = "raised"
    /\ rt_max = 3
    /\ Len(rt_calls) = 3
    /\ AllCallsFailedRecoverably
    /\ rt_calls[1].type # rt_calls[3].type
    /\ rt_out = rt_calls[3]

----------------------------------------------------------------------------
(* The claim about recover_page, checked under SpecRecover.                *)

\* the claim's condition, on what recover_page saw when it was called
RecoveryNeeded == ~rc_health.ok \/ ~Contains(rc_target, rc_url0)

\* C10: recover_page issues a navigation if and only if check_page_health
\* reports not ok or the current URL does not match the target; on a healthy
\* page already on the target it returns true with no goto, reload or sleep.
C10_RecoverNavigatesIffNeeded ==
    /\ rc_pc = "navigating" => RecoveryNeeded
    /\ rc_pc = "returned" =>
          /\ (rc_gotos > 0) <=> RecoveryNeeded
          /\ ~RecoveryNeeded =>
                (rc_ret /\ rc_gotos = 0 /\ rc_reloads = 0 /\ rc_sleeps = 0)

\* C10 witness: a healthy page on a URL that contains the target (and is not
\* equal to it): recover_page returned true and issued nothing.
C10_Witness ==
    /\ rc_pc = "returned"
    /\ rc_health.ok
    /\ rc_url0 # rc_target
    /\ Contains(rc_target, rc_url0)
    /\ rc_ret
    /\ rc_gotos = 0 /\ rc_reloads = 0 /\ rc_sleeps = 0

----------------------------------------------------------------------------
(* The claims about step 3, the media list, checked under Spec.  The list  *)
(* is looked at where it is handed to the file input (line 261).           *)

Uploading == p_pc = "upload"
NoSuppliedMedia == media_call.images = << >>
GeneratedCount == Cardinality(media_call.multi_oks)
IsAiImage(item) == item[1] = "ai"

\* C11 (as stated): with no supplied media and no overflow text, the media
\* list passed to the file input holds exactly one item, whatever the media
\* count, the auto-image setting and the outcome of image generation.
C11_ExactlyOneItem ==
    (Uploading /\ NoSuppliedMedia /\ ~media_call.overflow) => Len(p_media) = 1

\* C11 (amended): with no supplied media and no overflow text, the list
\* passed to the file input is never empty and never longer than 9 nor than
\* the media count; it is the single AI cover or the single placeholder
\* unless auto-image is on, the media count is above 1 and several images
\* were generated, and then it is exactly the generated images.
C11_OneItemUnlessMultiGenerated ==
    (Uploading /\ NoSuppliedMedia /\ ~media_call.overflow) =>
        /\ Len(p_media) >= 1
        /\ Len(p_media) <= MAX_MEDIA
        /\ Len(p_media) <= Max(1, media_call.image_count)
        /\ Len(p_media) = Max(1, GeneratedCount)
        /\ (~media_call.auto_image \/ media_call.image_count <= 1)
              => Len(p_media) = 1
        /\ ~media_call.auto_image => p_media = <<DefaultCover>>
        /\ \A i \in 1..Len(p_media) :
              \/ IsAiImage(p_media[i])
              \/ (p_media[i] = DefaultCover /\ Len(p_media) = 1)

\* C11 witness: nine images were asked for and generated, and nine are passed
\* to the file input.
C11_Witness ==
    /\ Uploading
    /\ NoSuppliedMedia
    /\ ~media_call.overflow
    /\ media_call.image_count = MAX_MEDIA
    /\ Len(p_media) = MAX_MEDIA
    /\ \A i \in 1..Len(p_media) : IsAiImage(p_media[i])

\* the pages render_text_pages returned to step 3
RenderedPages == Min(media_call.needed, MAX_MEDIA - 1)

\* C12: when overflow text is present and text pages are rendered, the final
\* media list is the first item of the resolved list followed by the text
\* pages in their order, nothing else, and it is never longer than 9.
C12_CoverThenTextPages ==
    (Uploading /\ media_call.overflow /\ media_call.needed > 0) =>
        /\ Len(p_media) = 1 + RenderedPages
        /\ p_media[1] = media_call.resolved[1]
        /\ \A i \in 1..RenderedPages : p_media[i + 1] = TextPage(i)
        /\ Len(p_media) <= MAX_MEDIA

\* C12 witness: two supplied images and overflow text that fills more pages
\* than fit: the first image and eight text pages are passed on.
C12_Witness ==
    /\ Uploading
    /\ media_call.overflow
    /\ media_call.needed > MAX_MEDIA
    /\ Len(media_call.resolved) = 2
    /\ Len(p_media) = MAX_MEDIA
    /\ p_media[1] = Img(1)
    /\ p_media[MAX_MEDIA] = TextPage(MAX_MEDIA - 1)

\* the generator was asked and gave no image: every generate_image call
\* returned an error or raised, or image_gen could not be imported
AllGenerationFailed ==
    /\ NoSuppliedMedia
    /\ media_call.auto_image
    /\ media_call.multi_oks = {}
    /\ ~media_call.single_ok

\* C20: when image generation fails for every requested image (and the
\* placeholder file is there or can be written), step 3 does not abort the
\* run: it goes on to the upload with the placeholder cover as the one
\* resolved media item, for single-image and multi-image requests alike.
C20_GenerationFailureDegrades ==
    (AllGenerationFailed /\ media_call.cover # "raises") =>
        /\ ~Escaped
        /\ Uploading
        /\ media_call.resolved = <<DefaultCover>>
        /\ ~media_call.overflow => p_media = <<DefaultCover>>

----------------------------------------------------------------------------
(* The claims about steps 4-5 and about the submit loop, checked under     *)
(* Spec.                                                                   *)

\* the characters the slices of line 273 and 285 keep
ExpectedTitle == IF title <= TITLE_LIMIT THEN title ELSE TITLE_LIMIT
ExpectedBody == IF content <= BODY_LIMIT THEN content ELSE BODY_LIMIT

FailureEnds == {"MarkerFailure", "ClickError", "RecoverFailed"}
AllAttemptsFailed ==
    /\ Len(p_hist) > 0
    /\ \A a \in 1..Len(p_hist) : p_hist[a].end \in FailureEnds
Finished == p_pc \in {"done", "raised"}
PreSubmitPositions ==
    {"start", "navigating", "mode", "media", "upload", "title", "body", "tags",
     "decl", "preshot", "dry"}

\* C15: when every submit attempt ends in Failure, the submit-and-classify
\* step runs exactly 3 times, none of steps 1-9 runs again once the loop has
\* started, and the returned failure carries the third attempt's error and
\* retries = 3.
C15_ThreeFailedAttempts ==
    /\ [](/\ (Finished /\ AllAttemptsFailed) =>
                (Len(p_hist) = 3 /\ p_attempt = 3)
          /\ (Returned /\ AllAttemptsFailed) =>
                /\ ~p_result.success
                /\ ~p_result.uncertain
                /\ p_result.error = p_hist[3].end
                /\ p_result.retries = 3)
    /\ [][p_attempt >= 1 =>
            /\ p_pc' \notin PreSubmitPositions
            /\ p_steps' \ {"submit"} = p_steps \ {"submit"}
            /\ p_entered' = p_entered
            /\ p_preshot' = p_preshot]_vars

\* C15 witness: a failure marker, then a failed click, then a failed recovery,
\* and the failure of the third attempt returned with retries = 3.
C15_Witness ==
    /\ Returned
    /\ Len(p_hist) = 3
    /\ p_hist[1].end = "MarkerFailure"
    /\ p_hist[2].end = "ClickError"
    /\ p_hist[3].end = "RecoverFailed"
    /\ p_result.error = "RecoverFailed"
    /\ p_result.retries = 3

\* C16: once an attempt has observed a success signal, no later submit click
\* is issued in the invocation and the returned result is a success, also
\* when the post-check screenshot or the report write of that attempt raises.
C16_NoClickAfterSuccess ==
    \A a \in 1..Len(p_hist) :
        p_hist[a].outcome = "Success" =>
            /\ \A b \in (a + 1)..Len(p_hist) : ~p_hist[b].clicked
            /\ (p_attempt > a) => ~p_clicked
            /\ Returned => p_result.success

\* the page holds what steps 4-5 entered
FormHoldsEntered ==
    /\ "title" \in p_entered => page_form.title = ExpectedTitle
    /\ "body" \in p_entered => page_form.body = ExpectedBody

\* C17: after recover_page has re-navigated to the composer in the submit
\* step, the submit click of that attempt lands on a page that holds the
\* title and body entered in steps 4-5.
C17_ClickOnFilledPage ==
    [][(n_click' = n_click + 1 /\ p_health = "renavigated") => FormHoldsEntered]_vars

\* C19: in every attempt the page health is checked before the click; an
\* unhealthy page is handed to recover_page before any click; an attempt
\* whose recovery fails clicks nothing and is one used attempt of the loop.
C19_HealthBeforeClick ==
    /\ [](/\ (p_pc \in {"click", "classify", "postshot", "decide"} \/ p_clicked)
                => p_health \in {"ok", "rechecked", "renavigated"}
          /\ p_health = "failed" =>
                /\ ~p_clicked
                /\ p_exc = "RecoverFailed"
                /\ p_pc \in {"except", "done", "raised"}
          /\ \A a \in 1..Len(p_hist) :
                p_hist[a].end = "RecoverFailed" => ~p_hist[a].clicked
          /\ p_attempt <= MAX_PUBLISH_RETRIES
          /\ p_attempt >= 1 =>
                Len(p_hist) = IF Finished THEN p_attempt ELSE p_attempt - 1)
    /\ [][/\ (p_pc = "health" /\ p_pc' = "click")
                => check_page_health(page_url, TRUE).ok
          /\ (n_click' # n_click) => (p_pc = "click" /\ p_health # "failed")
          /\ (p_pc = "recovering" /\ p_pc' # "recovering" /\ ~rc_ret)
                => (p_pc' = "except" /\ n_click' = n_click)]_vars

\* C19 witness: the recovery failed in each of the three attempts; nothing
\* was clicked and the three attempts are used up.
C19_Witness ==
    /\ Returned
    /\ Len(p_hist) = 3
    /\ \A a \in 1..3 : p_hist[a].end = "RecoverFailed" /\ ~p_hist[a].clicked
    /\ n_click = 0
    /\ p_attempt = 3

\* the classifier has run in the current attempt
Classified == p_pc \in {"postshot", "decide"}

\* C14: the outcome depends only on what the page shows: the classifier
\* applied once more to the page as it stands after a classification gives
\* the variant that classification gave, whatever an earlier attempt found.
C14_SamePageSameOutcome ==
    Classified =>
        LET again == Classify(page_url, page_success, page_fail, page_url)
        IN p_outcome = Outcome(again.publish_success, again.error_msg)

\* C14 witness: the attempt before ended in Failure, and this attempt's page
\* shows no signal at all: the outcome is Indeterminate.
C14_Witness ==
    /\ Classified
    /\ Len(p_hist) = 1
    /\ p_hist[1].outcome = "Failure"
    /\ Contains(PUBLISH_PATH, page_url)
    /\ ~page_success
    /\ FirstVisible(page_fail) = 0
    /\ p_outcome = "Indeterminate"

\* C18: the checks run in a fixed order. A URL that left the composer is a
\* Success, failure texts or not; otherwise a success marker is a Success,
\* failure texts or not; otherwise the first visible failure text is a
\* Failure whose message keeps at most 100 characters of it, hidden texts
\* not counting; otherwise the URL after the grace delay decides between
\* Success and Indeterminate.
C18_ChecksInOrder ==
    [][(p_pc = "classify" /\ p_pc' = "postshot") =>
          LET shown == {i \in 1..Len(page_fail) : page_fail[i].visible}
          IN IF ~Contains(PUBLISH_PATH, page_url)
                THEN p_outcome' = "Success" /\ page_url' = page_url
             ELSE IF page_success
                THEN p_outcome' = "Success" /\ page_url' = page_url
             ELSE IF shown # {}
                THEN /\ p_outcome' = "Failure"
                     /\ page_url' = page_url
                     /\ \E i \in shown :
                           /\ \A j \in shown : i <= j
                           /\ p_error_msg' =
                                 <<IF page_fail[i].text > 100 THEN 100
                                   ELSE page_fail[i].text>>
             ELSE p_outcome' = IF ~Contains(PUBLISH_PATH, page_url')
                               THEN "Success" ELSE "Indeterminate"]_vars

\* C18 witness: a hidden failure text, then a visible one of 101 characters,
\* on a composer without success signal: Failure, 100 characters kept.
C18_Witness ==
    /\ p_pc = "postshot"
    /\ Contains(PUBLISH_PATH, page_url)
    /\ ~page_success
    /\ Len(page_fail) = 2
    /\ ~page_fail[1].visible
    /\ page_fail[2].visible
    /\ page_fail[2].text = 101
    /\ p_outcome = "Failure"
    /\ p_error_msg = <<100>>

\* C21: a safe_navigate call whose every goto fails makes exactly `retries`
\* gotos, a reload after each failure but the last, captures exactly one
\* 'nav_fail' screenshot and raises; a call that returns has made no goto and
\* no reload after the goto that succeeded.
C21_NavigateProtocol ==
    /\ nv_pc = "raised" =>
          /\ nv_gotos = nv_retries
          /\ nv_reloads = nv_retries - 1
          /\ nv_snaps = <<"nav_fail">>
    /\ nv_pc = "returned" =>
          /\ nv_gotos = nv_attempt
          /\ nv_reloads = nv_attempt - 1
          /\ nv_snaps = << >>

\* the same, with the screenshot only attempted
C21_NavigateProtocolAttempted ==
    /\ nv_pc = "raised" =>
          /\ nv_gotos = nv_retries
          /\ nv_reloads = nv_retries - 1
          /\ Len(nv_snaps) = 1
    /\ nv_pc = "returned" =>
          /\ nv_gotos = nv_attempt
          /\ nv_reloads = nv_attempt - 1
          /\ nv_snaps = << >>

\* C22: safe_click and safe_fill never raise; they make at most `retries`
\* attempts, return True at the first attempt that succeeds, making no
\* attempt after it, and return False after `retries` failed attempts.
C22_SafeNeverRaises ==
    /\ click.pc # "raised"
    /\ Len(click.log) <= click.retries
    /\ \A i \in 1..Len(click.log) :
          click.log[i] = "ok" => (i = Len(click.log) /\ click.pc = "returned")
    /\ click.pc = "returned" =>
          /\ click.ret \in {"True", "False"}
          /\ click.ret = "True" <=> click.log[Len(click.log)] = "ok"
          /\ click.ret = "False" => Len(click.log) = click.retries
    /\ click.sleeps = IF click.pc = "idle" THEN 0
                      ELSE IF click.pc = "try" THEN Len(click.log)
                      ELSE Len(click.log) - 1

\* C22 witness: safe_fill with retries = 3 failed in its fill, its click and
\* its wait, and returned False.
C22_Witness ==
    /\ click.pc = "returned"
    /\ click.op = "fill"
    /\ click.retries = 3
    /\ click.log = <<"fill", "click", "wait_for">>
    /\ click.ret = "False"

\* C23: an invocation that has entered the submit loop ends by returning a
\* result value, after at most 3 submit clicks: no error leaves publish_note
\* from the loop.
C23_LoopAlwaysReturns ==
    p_attempt >= 1 =>
        /\ n_click <= MAX_PUBLISH_RETRIES
        /\ p_pc # "raised"
        /\ p_pc = "done" => p_result # NoResult

\* C24: of any tag list at most the first 10 tags are typed into the body
\* editor, in the order given; a tag that fails is skipped, every tag after
\* it among the first 10 is still attempted, and _add_tags returns.
C24_FirstTenTagsInOrder ==
    /\ Len(tagging.typed) <= 10
    /\ \A k \in 1..Len(tagging.typed) :
          /\ \E j \in 1..10 : j <= Len(tagging.tags) /\ tagging.tags[j] = tagging.typed[k]
          /\ k > 1 => tagging.typed[k - 1] < tagging.typed[k]
    /\ tagging.pc = "returned" =>
          /\ Len(tagging.tried) = IF Len(tagging.tags) < 10 THEN Len(tagging.tags) ELSE 10
          /\ \A j \in 1..Len(tagging.tried) : tagging.tried[j] = tagging.tags[j]
          /\ tagging.added = Len(tagging.typed)

\* C24 witness: of 11 tags the first and the fifth failed; the other eight
\* of the first ten were typed, the eleventh was left out.
C24_Witness ==
    /\ tagging.pc = "returned"
    /\ Len(tagging.tags) = 11
    /\ tagging.typed = <<2, 3, 4, 6, 7, 8, 9, 10>>
    /\ Len(tagging.tried) = 10

\* b to the power k
RECURSIVE Power(_, _)
Power(b, k) == IF k = 0 THEN 1 ELSE b * Power(b, k - 1)

\* C25: with initial delay d, multiplier b and max_retries N, the k-th sleep
\* of the wrapper is d * b^(k-1); an operation that fails recoverably on
\* every call causes exactly N-1 sleeps, none after the last attempt; a call
\* that succeeds at attempt k returns that attempt's value after k-1 sleeps
\* and the operation is not called again.
C25_BackoffSleeps ==
    /\ \A k \in 1..Len(rt_sleeps) :
          rt_sleeps[k] = rt_delay0 * Power(rt_backoff, k - 1)
    /\ rt_max >= 1 => Len(rt_sleeps) <= rt_max - 1
    /\ (rt_max >= 1 /\ AllCallsFailedRecoverably /\ rt_pc = "raised") =>
          Len(rt_sleeps) = rt_max - 1
    /\ rt_pc = "returned" =>
          /\ Len(rt_calls) >= 1
          /\ rt_out = rt_calls[Len(rt_calls)]
          /\ rt_out.kind = "value"
          /\ \A i \in 1..(Len(rt_calls) - 1) : rt_calls[i].kind = "error"
          /\ Len(rt_sleeps) = Len(rt_calls) - 1

\* C25 witness: max_retries = 3, delay = 5, backoff = 2, every call failed:
\* the sleeps were 5 and 10, then the error was raised.
C25_Witness ==
    /\ rt_pc = "raised"
    /\ rt_max = 3
    /\ Len(rt_calls) = 3
    /\ AllCallsFailedRecoverably
    /\ rt_sleeps = <<5, 10>>

\* the URL has "error" or "about:blank" in it
FlaggedUrl(url) ==
    \E i \in 1..Len(url) : url[i] \in {"error", "about:blank"}

\* C26: check_page_health never raises; it returns ok = false exactly when
\* the URL is an error URL or about:blank, or reading the URL or evaluating
\* the script raised; otherwise it returns ok = true with the current URL.
C26_HealthVerdict ==
    /\ probe.pc # "raised"
    /\ probe.pc = "returned" =>
          /\ ~probe.ret.ok <=> (FlaggedUrl(page_url) \/ probe.fault # "none")
          /\ probe.ret.ok => probe.ret.url = page_url

\* C26 witness: a URL carrying "error" in its query is reported
\* not ok, with no page call having raised.
C26_Witness ==
    /\ probe.pc = "returned"
    /\ page_url = <<"?from=", "error">>
    /\ probe.fault = "none"
    /\ ~probe.ret.ok
    /\ probe.ret.url = page_url

\* C27: in every run that reaches the upload, the list passed to the file
\* input holds between 1 and 9 items, whatever images were supplied,
\* whatever the media count, with or without overflow text.
C27_OneToNineItems ==
    Uploading => (Len(p_media) >= 1 /\ Len(p_media) <= MAX_MEDIA)

\* C28: over any sequence of auto_reply runs on one comments database, a
\* comment whose id has been marked replied is never sent a reply again,
\* however many other comments were replied to in between: it is skipped.
C28_NoSecondReply ==
    [][replies'.sent # replies.sent =>
          replies'.sent[Len(replies'.sent)] \notin replies.marked]_vars

\* the same, for runs whose database file was always readable
C28_NoSecondReplyWhileReadable ==
    [][(replies'.sent # replies.sent /\ ~replies'.lost) =>
          replies'.sent[Len(replies'.sent)] \notin replies.marked]_vars

\* the same, for an id still among the REPLIED_KEEP ids in the file
C28_NoSecondReplyWhileKept ==
    [][(replies'.sent # replies.sent /\ ~replies'.lost) =>
          ~AlreadyReplied(replies.file, replies'.sent[Len(replies'.sent)])]_vars

----------------------------------------------------------------------------
(* C30: whatever add_account, switch_account and remove_account calls were  *)
(* made on a store that began empty, the stored current account is null or  *)
(* the id of a stored account, it is not null while an account is stored,   *)
(* and a call that returned an error left the store as it found it.         *)
C30_CurrentIsAnAccount ==
    LET data == load_accounts(accounts) IN
    /\ data.current = None \/ data.current \in Keys(data.ids)
    /\ data.ids # << >> => data.current # None
    /\ accounts.ret = "False" =>
          /\ data = accounts.before
          /\ IF accounts.op = "add_account"
             THEN accounts.arg \in Keys(data.ids)
             ELSE accounts.arg \notin Keys(data.ids)

\* the current account was removed while two others were stored, and the
\* first of them became the current one
C30_Witness ==
    /\ accounts.op = "remove_account"
    /\ accounts.ret = "True"
    /\ accounts.before.current = accounts.arg
    /\ Len(accounts.file.ids) = 2
    /\ accounts.file.current = accounts.file.ids[1]

====
